---- MODULE Spec2Model ----
(***************************************************************************)
(* Model of the `stu` crate (src/stu/src/lib.rs, src/stu/src/error.rs):    *)
(* the connection life cycle of a Wacom STU tablet, the mutex-guarded      *)
(* native interface handle, and the translation of native status codes.    *)
(*                                                                         *)
(* One process (Main) runs Connector::connect and later drops the Tablet;  *)
(* two worker threads call clear / inking / capability / queue on the      *)
(* shared Tablet.  Every FFI call that takes the interface handle is split *)
(* in a begin and an end step, so that calls in progress are visible in    *)
(* the state.  The native SDK is the environment: each call returns a      *)
(* status drawn from sdkReturns.  A run either has one worker and an SDK   *)
(* that may return every status code, or both workers and an SDK that      *)
(* returns the success status and one exception status.                    *)
(*                                                                         *)
(* A panic unwinds (the default profile): the panicking thread stops, and  *)
(* a panic inside Tablet::wrap drops the RawTabletConnection it owns.      *)
(*                                                                         *)
(* Report ids are table indices in the code (lib.rs:56-59); the model      *)
(* renumbers the three ids used by the crate densely from 0.  Status codes *)
(* are named as in stu_sys; "Undefined" stands for every integer that is   *)
(* not one of the named codes.                                             *)
(*                                                                         *)
(* The windows of src/hc/src/window.rs have runs of their own: the preview *)
(* path of the ManagementWindow (controllers on any thread, the handler of *)
(* the notice on the window's thread) and pick_tablet with its             *)
(* DeviceSelection dialog.                                                 *)
(***************************************************************************)
EXTENDS Integers, Sequences, FiniteSets, TLC

\* ---------------------------------------------------------------- bounds
MaxTableLen == 3
MaxQueues == 1
MaxExcDetail == 2
MaxDevices == 2
MaxInfoCalls == 2
MaxEvents == 3
MaxDeviceChanges == 2
MaxControllers == 2
MaxUpdates == 3
MaxSelects == 3

\* ------------------------------------------------------------- processes
Main == <<"main", 0>>
Thread(i) == <<"thread", i>>
Threads == {Thread(1), Thread(2)}
Procs == {Main} \cup Threads
NoProc == <<"none", 0>>

\* ------------------------------------------------- native status codes
MisuseStatuses ==
    {"Unspecified", "InvalidHandle", "InvalidParameter",
     "InvalidParameterNullPointer", "Error", "ErrorSizeof"}

ExceptionStatuses ==
    {"Exception_Unknown", "Exception_std", "Exception_system_error",
     "Exception_not_connected", "Exception_device_removed",
     "Exception_write_not_supported", "Exception_io", "Exception_timeout",
     "Exception_set", "Exception_ReportHandler",
     "Exception_EncryptionHandler"}

DefinedStatuses ==
    {"Success", "Unsupported"} \cup MisuseStatuses \cup ExceptionStatuses

StatusCodes == DefinedStatuses \cup {"Undefined"}

\* The statuses drawn when several worker threads run concurrently.
CoreStatuses == {"Success", "Exception_device_removed"}

Exception ==
    {"WriteNotSupported", "SystemError", "NotConnected", "DeviceRemoved",
     "TimedOut", "InputOutput", "Other"}

\* ------------------------------------------------------------ report ids
ReportId_Capability == 0
ReportId_ClearScreen == 1
ReportId_InkingMode == 2

ReportIds == 0..MaxTableLen

\* The tables WacomGSS_Interface_getReportCountLengths can hand back.
ReportTables == UNION {[1..n -> {0, 1}] : n \in 0..MaxTableLen}

ExcDetails == {[data |-> i, stu_code |-> i] : i \in 1..MaxExcDetail}

\* The WacomGSS_UsbDevice descriptors WacomGSS_getUsbDevices can list
\* (idVendor, idProduct, bcdDevice are 16 bits wide).
UsbDevices ==
    {[idVendor |-> 1386, idProduct |-> 162, bcdDevice |-> 256],
     [idVendor |-> 1386, idProduct |-> 163, bcdDevice |-> 65535]}

\* No device: the None of Option<Connector>, or a Connector that was moved.
NoDevice == [idVendor |-> -1, idProduct |-> -1, bcdDevice |-> -1]

\* The arrays WacomGSS_getUsbDevices can hand back, with their count.
DeviceArrays ==
    {[devices |-> a, count |-> Len(a)] :
        a \in UNION {[1..n -> UsbDevices] : n \in 0..MaxDevices}}

\* count = 0, devices = null (lib.rs:313-314)
NoArray == [devices |-> <<>>, count |-> 0]

NoInformation == [id_vendor |-> -1, id_product |-> -1, bcd_device |-> -1]

\* The Connector the connection runs start with.
FirstDevice == [idVendor |-> 1386, idProduct |-> 162, bcdDevice |-> 256]

\* The WacomGSS_Capability structs a device can answer with (every field is
\* 16 bits wide); only the five fields capability() reads are kept.
CapStructs ==
    {[screenWidth |-> 800, screenHeight |-> 480, tabletMaxX |-> 20000,
      tabletMaxY |-> 12000, tabletMaxPressure |-> 2047],
     [screenWidth |-> 65535, screenHeight |-> 0, tabletMaxX |-> 65534,
      tabletMaxY |-> 256, tabletMaxPressure |-> 1023],
     [screenWidth |-> 396, screenHeight |-> 100, tabletMaxX |-> 9600,
      tabletMaxY |-> 6000, tabletMaxPressure |-> 511]}

\* The configuration the device starts with.
FirstCap ==
    [screenWidth |-> 800, screenHeight |-> 480, tabletMaxX |-> 20000,
     tabletMaxY |-> 12000, tabletMaxPressure |-> 2047]

\* std::mem::zeroed() (lib.rs:115)
ZeroCap ==
    [screenWidth |-> 0, screenHeight |-> 0, tabletMaxX |-> 0,
     tabletMaxY |-> 0, tabletMaxPressure |-> 0]

\* A 32-bit unsigned value, as its four bytes from the highest down.
U32(b3, b2, b1, b0) == <<b3, b2, b1, b0>>

\* The number a 32-bit value stands for; the values met here stay below
\* 2^16, higher ones have no number in the checker's integers.
Value32(w) ==
    IF w[1] = 0 /\ w[2] = 0 THEN w[3] * 256 + w[4] ELSE -1

\* u32::from that keeps the low byte only.
u32_from_low_byte(x) == U32(0, 0, 0, x % 256)

\* u32::from(u16): the 16 bits, zero-extended.
u32_from(x) == U32(0, 0, x \div 256, x % 256)

\* The Capability built at lib.rs:129-135.
Capability_of(capability) ==
    [display_width |-> u32_from(capability.screenWidth),
     display_height |-> u32_from(capability.screenHeight),
     input_width |-> u32_from(capability.tabletMaxX),
     input_height |-> u32_from(capability.tabletMaxY),
     input_depth |-> u32_from(capability.tabletMaxPressure)]

\* No Capability was returned.
NoCapability ==
    [display_width |-> <<>>, display_height |-> <<>>, input_width |-> <<>>,
     input_height |-> <<>>, input_depth |-> <<>>]

\* The accessors of Capability (lib.rs:161-194).
width(c) == c.display_width
height(c) == c.display_height
input_grid_width(c) == c.input_width
input_grid_height(c) == c.input_height
input_grid_pressure(c) == c.input_depth

\* The Events a report callback can push.
Events == {"pen_down", "pen_up"}

\* No Queue: nothing buffered, nothing pushed, nothing received.
NoChannel == [open |-> FALSE, buffer |-> <<>>, pushed |-> <<>>,
              received |-> <<>>]

\* What try_recv returns: the next Event, "empty" or "disconnected".
RecvNone == [kind |-> "none", event |-> "none"]
RecvEvent(e) == [kind |-> "event", event |-> e]
RecvEmpty == [kind |-> "empty", event |-> "none"]
RecvDisconnected == [kind |-> "disconnected", event |-> "none"]

\* ------------------------------------------------------- result values
NoDetail == [data |-> 0, stu_code |-> 0]

ResNone == [kind |-> "None", value |-> "none", exception |-> "none",
            detail |-> NoDetail, report_id |-> -1, panic |-> "none"]

ResOk(v) == [ResNone EXCEPT !.kind = "Ok", !.value = v]

ResErr(e, d) == [ResNone EXCEPT !.kind = "Err", !.exception = e, !.detail = d]

ResClientError(id) ==
    [ResNone EXCEPT !.kind = "ClientError", !.report_id = id]

ResPanic(msg) == [ResNone EXCEPT !.kind = "Panic", !.panic = msg]

\* --------------------------------------------------------- error.rs
Code(k) == [kind |-> k, exception |-> "none"]
CodeException(e) == [kind |-> "Exception", exception |-> e]

\* from_wacom_stu with a catch-all arm that lets unknown statuses through.
from_wacom_stu_lenient(what) ==
    CASE what = "Success" -> [tag |-> "Ok", code |-> Code("none")]
      [] what = "Unspecified" -> [tag |-> "Err", code |-> Code("Unspecified")]
      [] what = "InvalidHandle" ->
            [tag |-> "Err", code |-> Code("InvalidHandle")]
      [] what = "InvalidParameter" ->
            [tag |-> "Err", code |-> Code("InvalidParameter")]
      [] what = "InvalidParameterNullPointer" ->
            [tag |-> "Err", code |-> Code("InvalidParameter")]
      [] what = "Unsupported" -> [tag |-> "Err", code |-> Code("Unsupported")]
      [] what = "Error" -> [tag |-> "Err", code |-> Code("Unspecified")]
      [] what = "ErrorSizeof" -> [tag |-> "Err", code |-> Code("InvalidSizeOf")]
      [] what = "Exception_Unknown" ->
            [tag |-> "Err", code |-> CodeException("Other")]
      [] what = "Exception_std" ->
            [tag |-> "Err", code |-> CodeException("Other")]
      [] what = "Exception_system_error" ->
            [tag |-> "Err", code |-> CodeException("SystemError")]
      [] what = "Exception_not_connected" ->
            [tag |-> "Err", code |-> CodeException("NotConnected")]
      [] what = "Exception_device_removed" ->
            [tag |-> "Err", code |-> CodeException("DeviceRemoved")]
      [] what = "Exception_write_not_supported" ->
            [tag |-> "Err", code |-> CodeException("WriteNotSupported")]
      [] what = "Exception_io" ->
            [tag |-> "Err", code |-> CodeException("InputOutput")]
      [] what = "Exception_timeout" ->
            [tag |-> "Err", code |-> CodeException("TimedOut")]
      [] what = "Exception_set" ->
            [tag |-> "Err", code |-> CodeException("Other")]
      [] what = "Exception_ReportHandler" ->
            [tag |-> "Err", code |-> CodeException("Other")]
      [] what = "Exception_EncryptionHandler" ->
            [tag |-> "Err", code |-> CodeException("Other")]
      [] OTHER -> [tag |-> "Ok", code |-> Code("none")]

\* InternalErrorCode::from_wacom_stu
InternalErrorCode_from_wacom_stu(what) ==
    CASE what = "Success" -> [tag |-> "Ok", code |-> Code("none")]
      [] what = "Unspecified" -> [tag |-> "Err", code |-> Code("Unspecified")]
      [] what = "InvalidHandle" ->
            [tag |-> "Err", code |-> Code("InvalidHandle")]
      [] what = "InvalidParameter" ->
            [tag |-> "Err", code |-> Code("InvalidParameter")]
      [] what = "InvalidParameterNullPointer" ->
            [tag |-> "Err", code |-> Code("InvalidParameter")]
      [] what = "Unsupported" -> [tag |-> "Err", code |-> Code("Unsupported")]
      [] what = "Error" -> [tag |-> "Err", code |-> Code("Unspecified")]
      [] what = "ErrorSizeof" -> [tag |-> "Err", code |-> Code("InvalidSizeOf")]
      [] what = "Exception_Unknown" ->
            [tag |-> "Err", code |-> CodeException("Other")]
      [] what = "Exception_std" ->
            [tag |-> "Err", code |-> CodeException("Other")]
      [] what = "Exception_system_error" ->
            [tag |-> "Err", code |-> CodeException("SystemError")]
      [] what = "Exception_not_connected" ->
            [tag |-> "Err", code |-> CodeException("NotConnected")]
      [] what = "Exception_device_removed" ->
            [tag |-> "Err", code |-> CodeException("DeviceRemoved")]
      [] what = "Exception_write_not_supported" ->
            [tag |-> "Err", code |-> CodeException("WriteNotSupported")]
      [] what = "Exception_io" ->
            [tag |-> "Err", code |-> CodeException("InputOutput")]
      [] what = "Exception_timeout" ->
            [tag |-> "Err", code |-> CodeException("TimedOut")]
      [] what = "Exception_set" ->
            [tag |-> "Err", code |-> CodeException("Other")]
      [] what = "Exception_ReportHandler" ->
            [tag |-> "Err", code |-> CodeException("Other")]
      [] what = "Exception_EncryptionHandler" ->
            [tag |-> "Err", code |-> CodeException("Other")]
      [] OTHER -> [tag |-> "Panic", code |-> Code("none")]

NoCode == [tag |-> "none", code |-> Code("none")]

\* InternalError::internal_misbehavior
internal_misbehavior(code) == code.kind # "Exception"

\* unwrap_to_general that keeps the Error but loses its variant.
unwrap_to_general_losing_variant(code, detail) ==
    IF code.kind = "Exception"
    THEN ResErr("Other", detail)
    ELSE ResPanic("non-exception")

\* unwrap_to_general that leaves the message and the secondary code behind.
unwrap_to_general_dropping_detail(code, detail) ==
    IF code.kind = "Exception"
    THEN ResErr(code.exception, NoDetail)
    ELSE ResPanic("non-exception")

\* unwrap_to_general that hands every internal error to the caller.
unwrap_to_general_lenient(code, detail) ==
    IF code.kind = "Exception"
    THEN ResErr(code.exception, detail)
    ELSE ResErr("Other", detail)

\* InternalError::unwrap_to_general, applied to InternalError {code, data,
\* stu_code}: the public Error, or a panic for a non-exception code.
unwrap_to_general(code, detail) ==
    IF code.kind = "Exception"
    THEN ResErr(code.exception, detail)
    ELSE ResPanic("non-exception")

\* The translation with the failure swallowed.
Translated_swallowing(what, got, detail) == ResOk("unit")

\* InternalError::from_wacom_stu(what).map_err(unwrap_to_general), given the
\* status `got` and the detail that WacomGSS_getException hands back when it
\* is called (it is called only for a non-success `what`).
Translated(what, got, detail) ==
    LET first == InternalErrorCode_from_wacom_stu(what)
        second == InternalErrorCode_from_wacom_stu(got)
    IN  CASE first.tag = "Ok" -> ResOk("unit")
          [] first.tag = "Panic" -> ResPanic("invalid return value")
          [] second.tag = "Panic" -> ResPanic("invalid return value")
          [] second.tag = "Err" -> ResPanic("could not get exception")
          [] OTHER -> unwrap_to_general(first.code, detail)

\* InternalError::from_wacom_stu(what).unwrap() of list_devices: every Err
\* panics.
Unwrapped(what, got, detail) ==
    LET first == InternalErrorCode_from_wacom_stu(what)
        second == InternalErrorCode_from_wacom_stu(got)
    IN  CASE first.tag = "Ok" -> ResOk("unit")
          [] first.tag = "Panic" -> ResPanic("invalid return value")
          [] second.tag = "Panic" -> ResPanic("invalid return value")
          [] second.tag = "Err" -> ResPanic("could not get exception")
          [] OTHER -> ResPanic("unwrap on Err")

\* What the call site of operation o makes of the status.
TranslatedAt(o, what, got, detail) ==
    IF o = "list_devices"
    THEN Unwrapped(what, got, detail)
    ELSE Translated(what, got, detail)

\* --------------------------------------------------------- lib.rs
\* Handle::wrap_slice(ptr, len): the handle owns len elements.
Handle_wrap_slice(devices, count) == SubSeq(devices, 1, count)

\* Handle::wrap(value): the handle owns the value and derefs to it.
Handle_wrap(value) == value

\* Indexed access through the handle, bounded by the stored length.
Handle_get(values, i) ==
    IF i < Len(values) THEN values[i + 1] ELSE NoDevice

\* usize::saturating_add; usize::MAX is out of reach of the bounded runs.
saturating_add(a, b) == a + b

\* Connector::info that reports the product id as the revision.
info_mixing_fields(device) ==
    [id_vendor |-> device.idVendor,
     id_product |-> device.idProduct,
     bcd_device |-> device.idProduct]

\* Connector::info
info(device) ==
    [id_vendor |-> device.idVendor,
     id_product |-> device.idProduct,
     bcd_device |-> device.bcdDevice]

\* check_support with the membership test lost.
check_support_accepts_all(supported, report_id) == ResOk("unit")

\* Tablet::check_support
check_support(supported, report_id) ==
    IF report_id \in supported
    THEN ResOk("unit")
    ELSE ResClientError(report_id)

\* The loop of Tablet::wrap counting report ids from 1.
SupportedOf_from_one(report_list) ==
    {i : i \in {j \in 1..Len(report_list) : report_list[j] # 0}}

\* The loop of Tablet::wrap over the report table (index i-1 is report id).
SupportedOf(report_list) ==
    {i - 1 : i \in {j \in 1..Len(report_list) : report_list[j] # 0}}

\* The report id that gates each command (lib.rs:86, 97, 113, 140).
ReportIdOf(o) ==
    CASE o = "clear" -> ReportId_ClearScreen
      [] o = "inking" -> ReportId_InkingMode
      [] OTHER -> ReportId_Capability

Commands == {"clear", "inking", "capability", "queue"}

\* drop() with the two calls in the wrong order.
NativeFns_free_first(o) ==
    CASE o = "wrap" -> <<"getReportCountLengths">>
      [] o = "clear" -> <<"setClearScreen">>
      [] o = "inking" -> <<"setInkingMode">>
      [] o = "capability" -> <<"getCapability">>
      [] o = "queue" -> <<"getCapability">>
      [] o = "drop" -> <<"free", "disconnect">>
      [] OTHER -> <<>>

\* The native functions one call of RawTabletConnection::dispatch runs under
\* its single lock acquisition, per operation.
NativeFns(o) ==
    CASE o = "wrap" -> <<"getReportCountLengths">>
      [] o = "clear" -> <<"setClearScreen">>
      [] o = "inking" -> <<"setInkingMode">>
      [] o = "capability" -> <<"getCapability">>
      [] o = "queue" -> <<"getCapability">>
      [] o = "drop" -> <<"disconnect", "free">>
      [] OTHER -> <<>>

\* --------------------------------------------------------- window.rs
\* The controllers a ManagementWindow can have handed out or had cloned.
Controllers == 1..MaxControllers

\* The sizes of the EventCanvas update_preview is given.
Canvases ==
    {[width |-> 800, height |-> 480], [width |-> 320, height |-> 200]}

\* The (width, height, blob) update_preview sends: `bitmap` stands for the
\* bytes EventCanvas::to_bitmap returned, `decodes` for whether
\* nwg::Bitmap::from_bin accepts them.
Blob(source, bitmap, decodes) ==
    [width |-> source.width, height |-> source.height, bitmap |-> bitmap,
     decodes |-> decodes]

\* The ImageFrame shows nothing yet.
NoBlob == [width |-> 0, height |-> 0, bitmap |-> 0, decodes |-> FALSE]

\* What pick_tablet returns.
PickNone == [kind |-> "none", info |-> NoInformation, panic |-> "none"]
PickOk(connector) == [PickNone EXCEPT !.kind = "Ok", !.info = connector]
PickErr(e) == [PickNone EXCEPT !.kind = e]
PickPanic(msg) == [PickNone EXCEPT !.kind = "Panic", !.panic = msg]

\* list_devices().map(|connector| connector.info()).collect(): Connectors::next
\* from index i on, until it returns None.
RECURSIVE Collect(_, _)
Collect(vals, i) ==
    LET val == Handle_get(vals, i)
    IN  IF val = NoDevice
        THEN <<>>
        ELSE <<info(val)>> \o Collect(vals, saturating_add(i, 1))

\* DeviceSelection::new: the assertion on the length of the list.
DeviceSelection_new(devs) ==
    IF Len(devs) = 0 THEN "assertion failed" ELSE "built"

\* Vec::swap_remove(i): the element at i, its place taken by the last one.
swap_remove(v, i) ==
    [removed |-> v[i + 1],
     rest |-> [j \in 1..(Len(v) - 1) |->
                   IF j = i + 1 THEN v[Len(v)] ELSE v[j]]]

\* ------------------------------------------------------------------ state
VARIABLES
    sdkReturns,         \* statuses the native SDK returns in this run
    live,               \* worker threads that exist in this run
    pc,                 \* position of each process
    op,                 \* operation each process is running / ran last
    mode,               \* inking mode argument of the running inking()
    status,             \* status of the operation's native call
    code,               \* InternalErrorCode::from_wacom_stu of that status
    result,             \* value the operation returned (or its panic)
    calls,              \* native functions called by the operation, in order
    lockHolder,         \* owner of the MutexGuard of `interface`
    lockCalls,          \* native calls made under the current guard
    inCall,             \* processes inside a native call taking the interface
    report_list,        \* table written by getReportCountLengths
    tablet,             \* "none", "alive" or "dropped"
    supported_reports,  \* Tablet::supported_reports
    owners,             \* strong count of Arc<RawTabletConnection>
    queues,             \* open Queues
    ifaceLog,           \* disconnect / free calls made on the interface
    sdkException,       \* detail the SDK recorded last, process-wide
    recorded,           \* detail the SDK recorded for the failing call whose
                        \* translation is under way, per thread
    exc_out,            \* (data, stu_code) written by WacomGSS_getException
    devices_out,        \* (devices, count) written by WacomGSS_getUsbDevices
    listed,             \* a Connectors value exists
    values,             \* Connectors::values
    index,              \* Connectors::index
    yielded,            \* what Connectors::next returned, call by call
    connector,          \* Connector::device of the Connector Main holds
    info_out,           \* Information returned by the last info()
    infoCalls,          \* info() calls made on the Connector Main holds
    chan,               \* the channel of the Queue each thread holds, with
                        \* what was pushed into it and received from it
    recv_out,           \* what the thread's last try_recv returned
    recvTick,           \* flips with every try_recv of the thread
    deviceHistory,      \* the configurations the device has had, the
                        \* current one last
    capability_out,     \* struct written by WacomGSS_Protocol_getCapability
    capEpoch,           \* which configuration that call read
    caps,               \* Capability the thread's capability() returned
    managementWindow,   \* "open" while its events are dispatched, "stopped"
                        \* once the dispatch was stopped, "dropped" after
    ctl,                \* position of each ManagementWindowController:
                        \* "none", "idle", or "sent" inside update_preview
    updates,            \* update_preview calls made so far
    update_out,         \* what each controller's last update_preview returned
    display_blobs,      \* the blobs buffered in the channel
    display_update,     \* notices posted and not handled yet
    display,            \* the blob the ImageFrame shows
    uiPanic,            \* the unwrap() that failed on the window's thread
    sent,               \* the blobs sent, in the order of the sends
    taken,              \* the blobs try_recv handed to on_display_update
    shown,              \* the blobs set as the ImageFrame's bitmap
    pickPc,             \* position of pick_tablet
    enumerated,         \* the array WacomGSS_getUsbDevices handed back
    devices,            \* pick_tablet's Vec of Information
    built,              \* DeviceSelection values constructed
    collection,         \* the entries of the selection box
    selection,          \* index selected in the selection box, -1 for None
    selects,            \* changes the user made to the selection
    channel,            \* the Option the dialog answers through
    endedBy,            \* the handler that stopped the dialog's dispatch
    pick_out            \* what pick_tablet returned

\* The SDK's record of the last exception and the out-parameters of
\* WacomGSS_getException (error.rs:113-120).
excVars == <<sdkException, recorded, exc_out>>

\* list_devices and the Connectors iterator (lib.rs:286-329).
listVars == <<devices_out, listed, values, index>>

\* The Connectors' output and the Connector in hand (lib.rs:249-261).
connVars == <<yielded, connector, info_out, infoCalls>>

enumVars == <<listVars, connVars>>

\* The Queue's delivery path (spec 4.6).
chanVars == <<chan, recv_out, recvTick>>

\* The device's geometry and what capability() makes of it (lib.rs:112-136).
capVars == <<deviceHistory, capability_out, capEpoch, caps>>

\* The preview path of the ManagementWindow (window.rs:234-308).
previewVars == <<managementWindow, ctl, updates, update_out, display_blobs,
                 display_update, display, uiPanic, sent, taken, shown>>

\* pick_tablet and its DeviceSelection dialog (window.rs:23-178).
pickVars == <<pickPc, enumerated, devices, built, collection, selection,
              selects, channel, endedBy, pick_out>>

uiVars == <<previewVars, pickVars>>

\* The state of the stu crate.
stuVars == <<sdkReturns, live, pc, op, mode, status, code, result, calls,
             lockHolder, lockCalls, inCall, report_list, tablet,
             supported_reports, owners, queues, ifaceLog, excVars, enumVars,
             chanVars, capVars>>

vars == <<stuVars, uiVars>>

\* No operation has run yet.
Idle ==
    /\ pc = [p \in Procs |-> "idle"]
    /\ op = [p \in Procs |-> "none"]
    /\ mode = [p \in Procs |-> "none"]
    /\ status = [p \in Procs |-> "none"]
    /\ code = [p \in Procs |-> NoCode]
    /\ result = [p \in Procs |-> ResNone]
    /\ calls = [p \in Procs |-> <<>>]
    /\ lockHolder = NoProc
    /\ lockCalls = 0
    /\ inCall = {}
    /\ report_list = <<>>
    /\ tablet = "none"
    /\ supported_reports = {}
    /\ owners = 0
    /\ queues = 0
    /\ ifaceLog = <<>>
    /\ sdkException = NoDetail
    /\ recorded = [p \in Procs |-> NoDetail]
    /\ exc_out = [p \in Procs |-> NoDetail]
    /\ devices_out = NoArray
    /\ listed = FALSE
    /\ values = <<>>
    /\ index = 0
    /\ yielded = <<>>
    /\ info_out = NoInformation
    /\ infoCalls = 0
    /\ chan = [t \in Threads |-> NoChannel]
    /\ recv_out = [t \in Threads |-> RecvNone]
    /\ recvTick = [t \in Threads |-> FALSE]
    /\ deviceHistory = <<FirstCap>>
    /\ capability_out = [p \in Procs |-> ZeroCap]
    /\ capEpoch = [p \in Procs |-> 0]
    /\ caps = [p \in Procs |-> NoCapability]
    /\ managementWindow = "open"
    /\ ctl = [c \in Controllers |-> "none"]
    /\ updates = 0
    /\ update_out = [c \in Controllers |-> "none"]
    /\ display_blobs = <<>>
    /\ display_update = 0
    /\ display = NoBlob
    /\ uiPanic = "none"
    /\ sent = <<>>
    /\ taken = <<>>
    /\ shown = <<>>
    /\ pickPc = "idle"
    /\ enumerated = NoArray
    /\ devices = <<>>
    /\ built = 0
    /\ collection = <<>>
    /\ selection = -1
    /\ selects = 0
    /\ channel = NoInformation
    /\ endedBy = "none"
    /\ pick_out = PickNone

\* The connection runs: Main holds a Connector, the Connectors it came from
\* is gone.
Init ==
    /\ \/ live = {Thread(1)} /\ sdkReturns = StatusCodes
       \/ live = Threads /\ sdkReturns = CoreStatuses
    /\ connector = FirstDevice
    /\ Idle

\* Where a process goes when its operation is over.
EndPc(r) == IF r.kind = "Panic" THEN "panicked" ELSE "done"

\* ------------------------------------------------------- the native SDK
\* Threads that made a failing native call and have not yet asked for its
\* detail.
Pending == {q \in Procs : recorded[q] # NoDetail}

\* A native call of p returned status s.  For a failure status the SDK
\* records the detail of the exception, which WacomGSS_getException hands
\* out later; whether it keeps one record per process or one per thread is
\* not fixed by stu_sys, so both are kept.  `pending` tells that the caller
\* goes on to translate the status.  Every reader of the process-wide record
\* has overwritten it with its own failing call before, so that record is
\* only kept while some thread has its detail query still ahead.
SdkRecords(p, s, pending) ==
    CASE InternalErrorCode_from_wacom_stu(s).tag # "Err" ->
            UNCHANGED <<sdkException, recorded>>
      [] pending ->
            \E d \in ExcDetails :
                /\ sdkException' = d
                /\ recorded' = [recorded EXCEPT ![p] = d]
      [] Pending \ {p} # {} ->
            /\ \E d \in ExcDetails : sdkException' = d
            /\ UNCHANGED recorded
      [] OTHER ->
            UNCHANGED <<sdkException, recorded>>

\* The details WacomGSS_getException can hand to thread p: the process-wide
\* record, or the record of p's own failing call.
Retrievable(p) == {sdkException, recorded[p]}

\* ---------------------------------------------------------- list_devices
\* list_devices() starts: WacomGSS_getUsbDevices is entered.
ListDevicesBegin ==
    /\ pc[Main] = "idle"
    /\ ~listed
    /\ pc' = [pc EXCEPT ![Main] = "listing"]
    /\ op' = [op EXCEPT ![Main] = "list_devices"]
    /\ calls' = [calls EXCEPT ![Main] = <<"getUsbDevices">>]
    /\ UNCHANGED <<uiVars, excVars, enumVars, chanVars, capVars, sdkReturns, live, code, mode, status,
                   result, lockHolder, lockCalls, inCall, report_list, tablet,
                   supported_reports, owners, queues, ifaceLog>>

\* WacomGSS_getUsbDevices returns; on success it has written the array of
\* the attached devices and its length.
ListDevicesEnd ==
    /\ pc[Main] = "listing"
    /\ \E s \in sdkReturns :
          /\ status' = [status EXCEPT ![Main] = s]
          /\ SdkRecords(Main, s, TRUE)
          /\ IF s = "Success"
             THEN \E a \in DeviceArrays : devices_out' = a
             ELSE UNCHANGED devices_out
    /\ pc' = [pc EXCEPT ![Main] = "translate"]
    /\ UNCHANGED <<uiVars, exc_out, listed, values, index, connVars, chanVars, capVars, sdkReturns, live,
                   code, op, mode, result, calls, lockHolder, lockCalls,
                   inCall, report_list, tablet, supported_reports, owners,
                   queues, ifaceLog>>

\* Connectors::next that reads one element ahead of its index.
ConnectorsNext_one_ahead ==
    /\ listed
    /\ pc[Main] = "done"
    /\ index < MaxDevices + 2
    /\ LET val == Handle_get(values, index + 1)
       IN  /\ yielded' = Append(yielded, val)
           /\ IF val # NoDevice
              THEN /\ connector' = val
                   /\ infoCalls' = 0
                   /\ info_out' = NoInformation
              ELSE UNCHANGED <<connector, infoCalls, info_out>>
    /\ index' = saturating_add(index, 1)
    /\ UNCHANGED <<uiVars, excVars, devices_out, listed, values, chanVars, capVars, sdkReturns, live, pc,
                   op, mode, status, code, result, calls, lockHolder,
                   lockCalls, inCall, report_list, tablet, supported_reports,
                   owners, queues, ifaceLog>>

\* Connectors::next: the caller keeps the Connector it is handed.
ConnectorsNext ==
    /\ listed
    /\ pc[Main] = "done"
    /\ index < MaxDevices + 2
    /\ LET val == Handle_get(values, index)
       IN  /\ yielded' = Append(yielded, val)
           /\ IF val # NoDevice
              THEN /\ connector' = val
                   /\ infoCalls' = 0
                   /\ info_out' = NoInformation
              ELSE UNCHANGED <<connector, infoCalls, info_out>>
    /\ index' = saturating_add(index, 1)
    /\ UNCHANGED <<uiVars, excVars, devices_out, listed, values, chanVars, capVars, sdkReturns, live, pc,
                   op, mode, status, code, result, calls, lockHolder,
                   lockCalls, inCall, report_list, tablet, supported_reports,
                   owners, queues, ifaceLog>>

\* Connector::info on the Connector in hand.
ConnectorInfo ==
    /\ pc[Main] \in {"idle", "done"}
    /\ connector # NoDevice
    /\ infoCalls < MaxInfoCalls
    /\ info_out' = info(connector)
    /\ infoCalls' = infoCalls + 1
    /\ UNCHANGED <<uiVars, excVars, listVars, yielded, connector, chanVars, capVars, sdkReturns, live, pc,
                   op, mode, status, code, result, calls, lockHolder,
                   lockCalls, inCall, report_list, tablet, supported_reports,
                   owners, queues, ifaceLog>>

\* ------------------------------------------------ Connector::connect
\* connect() starts: WacomGSS_UsbInterface_create_1 is entered.
ConnectBegin ==
    /\ pc[Main] \in {"idle", "done"}
    /\ tablet = "none"
    /\ connector # NoDevice
    /\ connector' = NoDevice
    /\ infoCalls' = 0
    /\ pc' = [pc EXCEPT ![Main] = "creating"]
    /\ op' = [op EXCEPT ![Main] = "connect"]
    /\ calls' = [calls EXCEPT ![Main] = <<"create_1">>]
    /\ UNCHANGED <<uiVars, excVars, listVars, yielded, info_out, chanVars, capVars, sdkReturns, live, code, mode, status, result, lockHolder,
                   lockCalls, inCall, report_list, tablet, supported_reports,
                   owners, queues, ifaceLog>>

\* WacomGSS_UsbInterface_create_1 returns.
CreateEnd ==
    /\ pc[Main] = "creating"
    /\ \E s \in sdkReturns :
          /\ status' = [status EXCEPT ![Main] = s]
          /\ SdkRecords(Main, s, TRUE)
    /\ pc' = [pc EXCEPT ![Main] = "translate"]
    /\ UNCHANGED <<uiVars, exc_out, enumVars, chanVars, capVars, sdkReturns, live, code, op, mode, result, calls, lockHolder,
                   lockCalls, inCall, report_list, tablet, supported_reports,
                   owners, queues, ifaceLog>>

\* ------------------------------------------ RawTabletConnection::dispatch
\* dispatch that calls without waiting for the mutex.
Lock_without_waiting(p) ==
    /\ pc[p] = "dispatch"
    /\ lockHolder' = p
    /\ lockCalls' = 0
    /\ pc' = [pc EXCEPT ![p] = "locked"]
    /\ UNCHANGED <<uiVars, excVars, enumVars, chanVars, capVars, sdkReturns, live, code, op, mode, status, result, calls,
                   inCall, report_list, tablet, supported_reports, owners,
                   queues, ifaceLog>>

\* self.interface.lock().unwrap().  No code panics while the guard is held
\* (the closures are bare FFI calls), so the mutex is never poisoned.
Lock(p) ==
    /\ pc[p] = "dispatch"
    /\ lockHolder = NoProc
    /\ lockHolder' = p
    /\ lockCalls' = 0
    /\ pc' = [pc EXCEPT ![p] = "locked"]
    /\ UNCHANGED <<uiVars, excVars, enumVars, chanVars, capVars, sdkReturns, live, code, op, mode, status, result, calls, inCall,
                   report_list, tablet, supported_reports, owners, queues,
                   ifaceLog>>

\* fun(*interface): the next native function of the closure is entered.
NativeBegin(p) ==
    /\ pc[p] = "locked"
    /\ lockCalls' = lockCalls + 1
    /\ calls' = [calls EXCEPT ![p] = Append(@, NativeFns(op[p])[lockCalls + 1])]
    /\ inCall' = inCall \cup {p}
    /\ pc' = [pc EXCEPT ![p] = "incall"]
    /\ UNCHANGED <<uiVars, excVars, enumVars, chanVars, capVars, sdkReturns, live, code, op, mode, status, result, lockHolder,
                   report_list, tablet, supported_reports, owners, queues,
                   ifaceLog>>

\* The native function returns status s.  The closure of drop() discards the
\* status (`let _ =`) and goes on to its next call; every other closure
\* returns the status out of dispatch.
NativeEnd(p) ==
    /\ pc[p] = "incall"
    /\ inCall' = inCall \ {p}
    /\ \E s \in sdkReturns :
         IF op[p] = "drop"
         THEN /\ ifaceLog' = Append(ifaceLog,
                    [fn |-> NativeFns("drop")[lockCalls], by |-> p,
                     failed |-> (s # "Success")])
              /\ pc' = [pc EXCEPT ![p] =
                    IF lockCalls < Len(NativeFns("drop"))
                    THEN "locked" ELSE "called"]
              /\ SdkRecords(p, s, FALSE)
              /\ UNCHANGED <<status, report_list, capability_out, capEpoch>>
         ELSE /\ status' = [status EXCEPT ![p] = s]
              /\ SdkRecords(p, s, TRUE)
              /\ pc' = [pc EXCEPT ![p] =
                    IF lockCalls < Len(NativeFns(op[p]))
                    THEN "locked" ELSE "called"]
              /\ IF op[p] = "wrap" /\ s = "Success"
                 THEN \E tbl \in ReportTables : report_list' = tbl
                 ELSE UNCHANGED report_list
              /\ IF op[p] \in {"capability", "queue"} /\ s = "Success"
                 THEN /\ capability_out' = [capability_out EXCEPT ![p] =
                             deviceHistory[Len(deviceHistory)]]
                      /\ capEpoch' = [capEpoch EXCEPT ![p] =
                             Len(deviceHistory)]
                 ELSE UNCHANGED <<capability_out, capEpoch>>
              /\ UNCHANGED ifaceLog
    /\ UNCHANGED <<uiVars, exc_out, enumVars, chanVars, deviceHistory, caps, sdkReturns, live, code, op, mode, result, calls, lockHolder,
                   lockCalls, tablet, supported_reports, owners, queues>>

\* dispatch that returns with the guard leaked.
Unlock_leaking(p) ==
    /\ pc[p] = "called"
    /\ pc' = [pc EXCEPT ![p] =
          IF op[p] = "drop" THEN EndPc(result[p]) ELSE "translate"]
    /\ UNCHANGED <<uiVars, excVars, enumVars, chanVars, capVars, sdkReturns, live, code, op, mode, status, result, calls,
                   lockHolder, lockCalls, inCall, report_list, tablet,
                   supported_reports, owners, queues, ifaceLog>>

\* dispatch returns: the MutexGuard goes out of scope.
Unlock(p) ==
    /\ pc[p] = "called"
    /\ lockHolder' = NoProc
    /\ pc' = [pc EXCEPT ![p] =
          IF op[p] = "drop" THEN EndPc(result[p]) ELSE "translate"]
    /\ UNCHANGED <<uiVars, excVars, enumVars, chanVars, capVars, sdkReturns, live, code, op, mode, status, result, calls,
                   lockCalls, inCall, report_list, tablet, supported_reports,
                   owners, queues, ifaceLog>>

\* -------------------------------------- what follows the translated status
\* The code after `InternalError::from_wacom_stu(..).map_err(..)` of the
\* operation p is running, given the translated value r.
\* queue() that goes on to Queue::new after a failed capability().
Continue_queue_regardless(p, r) ==
    CASE op[p] = "connect" /\ r.kind = "Ok" ->
            \* lib.rs:277: the RawTabletConnection is built, wrap() begins
            /\ owners' = 1
            /\ op' = [op EXCEPT ![p] = "wrap"]
            /\ pc' = [pc EXCEPT ![p] = "dispatch"]
            /\ UNCHANGED <<listVars, caps>>
            /\ UNCHANGED <<result, tablet, supported_reports, report_list>>
      [] op[p] = "wrap" /\ r.kind = "Ok" ->
            \* lib.rs:43, 53-70
            /\ supported_reports' = SupportedOf(report_list)
            /\ tablet' = "alive"
            /\ result' = [result EXCEPT ![p] = ResOk("Tablet")]
            /\ report_list' = <<>>
            /\ pc' = [pc EXCEPT ![p] = "done"]
            /\ UNCHANGED <<listVars, caps>>
            /\ UNCHANGED <<op, owners>>
      [] op[p] = "wrap" /\ r.kind = "Err" ->
            \* lib.rs:44-49: logged, the table is None
            /\ supported_reports' = {}
            /\ tablet' = "alive"
            /\ result' = [result EXCEPT ![p] = ResOk("Tablet")]
            /\ report_list' = <<>>
            /\ pc' = [pc EXCEPT ![p] = "done"]
            /\ UNCHANGED <<listVars, caps>>
            /\ UNCHANGED <<op, owners>>
      [] op[p] = "wrap" /\ r.kind = "Panic" ->
            \* unwinding out of wrap() drops `raw`: Drop runs
            /\ result' = [result EXCEPT ![p] = r]
            /\ owners' = 0
            /\ op' = [op EXCEPT ![p] = "drop"]
            /\ pc' = [pc EXCEPT ![p] = "dispatch"]
            /\ UNCHANGED <<listVars, caps>>
            /\ UNCHANGED <<tablet, supported_reports, report_list>>
      [] op[p] = "capability" /\ r.kind = "Ok" ->
            \* lib.rs:126-135
            /\ result' = [result EXCEPT ![p] = ResOk("Capability")]
            /\ pc' = [pc EXCEPT ![p] = "done"]
            /\ UNCHANGED listVars
            /\ caps' = [caps EXCEPT ![p] =
                  Capability_of(Handle_wrap(capability_out[p]))]
            /\ UNCHANGED <<op, tablet, supported_reports, owners, report_list>>
      [] op[p] = "queue" /\ r.kind \in {"Ok", "Err"} ->
            \* lib.rs:140-141: on to Queue::new
            /\ pc' = [pc EXCEPT ![p] = "queue_new"]
            /\ UNCHANGED listVars
            /\ caps' = [caps EXCEPT ![p] =
                  Capability_of(Handle_wrap(capability_out[p]))]
            /\ UNCHANGED <<op, result, tablet, supported_reports, owners,
                           report_list>>
      [] op[p] = "list_devices" /\ r.kind = "Ok" ->
            \* lib.rs:322-328: the array is wrapped, the iterator starts at 0
            /\ values' = Handle_wrap_slice(devices_out.devices, devices_out.count)
            /\ index' = 0
            /\ listed' = TRUE
            /\ devices_out' = NoArray
            /\ result' = [result EXCEPT ![p] = ResOk("Connectors")]
            /\ UNCHANGED caps
            /\ pc' = [pc EXCEPT ![p] = "done"]
            /\ UNCHANGED <<op, tablet, supported_reports, owners, report_list>>
      [] OTHER ->
            /\ result' = [result EXCEPT ![p] = r]
            /\ pc' = [pc EXCEPT ![p] = EndPc(r)]
            /\ UNCHANGED <<listVars, caps>>
            /\ UNCHANGED <<op, tablet, supported_reports, owners, report_list>>

\* The code after `InternalError::from_wacom_stu(..)` is mapped, for the
\* operation p is running, given the translated value r.
Continue(p, r) ==
    CASE op[p] = "connect" /\ r.kind = "Ok" ->
            \* lib.rs:277: the RawTabletConnection is built, wrap() begins
            /\ owners' = 1
            /\ op' = [op EXCEPT ![p] = "wrap"]
            /\ pc' = [pc EXCEPT ![p] = "dispatch"]
            /\ UNCHANGED <<listVars, caps>>
            /\ UNCHANGED <<result, tablet, supported_reports, report_list>>
      [] op[p] = "wrap" /\ r.kind = "Ok" ->
            \* lib.rs:43, 53-70
            /\ supported_reports' = SupportedOf(report_list)
            /\ tablet' = "alive"
            /\ result' = [result EXCEPT ![p] = ResOk("Tablet")]
            /\ report_list' = <<>>
            /\ pc' = [pc EXCEPT ![p] = "done"]
            /\ UNCHANGED <<listVars, caps>>
            /\ UNCHANGED <<op, owners>>
      [] op[p] = "wrap" /\ r.kind = "Err" ->
            \* lib.rs:44-49: logged, the table is None
            /\ supported_reports' = {}
            /\ tablet' = "alive"
            /\ result' = [result EXCEPT ![p] = ResOk("Tablet")]
            /\ report_list' = <<>>
            /\ pc' = [pc EXCEPT ![p] = "done"]
            /\ UNCHANGED <<listVars, caps>>
            /\ UNCHANGED <<op, owners>>
      [] op[p] = "wrap" /\ r.kind = "Panic" ->
            \* unwinding out of wrap() drops `raw`: Drop runs
            /\ result' = [result EXCEPT ![p] = r]
            /\ owners' = 0
            /\ op' = [op EXCEPT ![p] = "drop"]
            /\ pc' = [pc EXCEPT ![p] = "dispatch"]
            /\ UNCHANGED <<listVars, caps>>
            /\ UNCHANGED <<tablet, supported_reports, report_list>>
      [] op[p] = "capability" /\ r.kind = "Ok" ->
            \* lib.rs:126-135
            /\ result' = [result EXCEPT ![p] = ResOk("Capability")]
            /\ pc' = [pc EXCEPT ![p] = "done"]
            /\ UNCHANGED listVars
            /\ caps' = [caps EXCEPT ![p] =
                  Capability_of(Handle_wrap(capability_out[p]))]
            /\ UNCHANGED <<op, tablet, supported_reports, owners, report_list>>
      [] op[p] = "queue" /\ r.kind = "Ok" ->
            \* lib.rs:140-141: on to Queue::new
            /\ pc' = [pc EXCEPT ![p] = "queue_new"]
            /\ UNCHANGED listVars
            /\ caps' = [caps EXCEPT ![p] =
                  Capability_of(Handle_wrap(capability_out[p]))]
            /\ UNCHANGED <<op, result, tablet, supported_reports, owners,
                           report_list>>
      [] op[p] = "list_devices" /\ r.kind = "Ok" ->
            \* lib.rs:322-328: the array is wrapped, the iterator starts at 0
            /\ values' = Handle_wrap_slice(devices_out.devices, devices_out.count)
            /\ index' = 0
            /\ listed' = TRUE
            /\ devices_out' = NoArray
            /\ result' = [result EXCEPT ![p] = ResOk("Connectors")]
            /\ UNCHANGED caps
            /\ pc' = [pc EXCEPT ![p] = "done"]
            /\ UNCHANGED <<op, tablet, supported_reports, owners, report_list>>
      [] OTHER ->
            /\ result' = [result EXCEPT ![p] = r]
            /\ pc' = [pc EXCEPT ![p] = EndPc(r)]
            /\ UNCHANGED <<listVars, caps>>
            /\ UNCHANGED <<op, tablet, supported_reports, owners, report_list>>

\* InternalError::from_wacom_stu up to its first match (error.rs:109-112):
\* success returns Ok, an undefined status panics, any other status goes on
\* to the exception-detail query.
Translate(p) ==
    /\ pc[p] = "translate"
    /\ code' = [code EXCEPT ![p] = InternalErrorCode_from_wacom_stu(status[p])]
    /\ IF InternalErrorCode_from_wacom_stu(status[p]).tag = "Err"
       THEN /\ pc' = [pc EXCEPT ![p] = "getexc"]
            /\ UNCHANGED <<op, result, tablet, supported_reports, owners,
                           report_list, listVars, caps>>
       ELSE Continue(p, TranslatedAt(op[p], status[p], "Success", NoDetail))
    /\ UNCHANGED <<uiVars, excVars, connVars, chanVars, deviceHistory, capability_out,
                   capEpoch, sdkReturns, live, mode, status, calls, lockHolder,
                   lockCalls, inCall, queues, ifaceLog>>

\* WacomGSS_getException is called (error.rs:113-127), then the InternalError
\* is mapped through unwrap_to_general.
GetException(p) ==
    /\ pc[p] = "getexc"
    /\ calls' = [calls EXCEPT ![p] = Append(@, "getException")]
    /\ \E got \in sdkReturns, d \in Retrievable(p) :
          /\ exc_out' = [exc_out EXCEPT ![p] =
                            IF got = "Success" THEN d ELSE NoDetail]
          /\ Continue(p, TranslatedAt(op[p], status[p], got, exc_out'[p]))
    /\ recorded' = [recorded EXCEPT ![p] = NoDetail]
    /\ sdkException' = IF Pending \ {p} = {} THEN NoDetail ELSE sdkException
    /\ UNCHANGED <<uiVars, connVars, chanVars, deviceHistory, capability_out, capEpoch,
                   sdkReturns, live, code, mode, status, lockHolder,
                   lockCalls, inCall, queues, ifaceLog>>

\* --------------------------------------------------------------- Tablet
\* Threads inside queue() that may still open a Queue.
Opening ==
    {t \in Threads : op[t] = "queue" /\ pc[t] \notin {"idle", "done", "panicked"}}

\* A command that takes a report id it was asked for as supported from then on.
Call_learning(t, o, m) ==
    /\ t \in live
    /\ pc[t] \in {"idle", "done"}
    /\ tablet = "alive"
    /\ o = "queue" => queues + Cardinality(Opening) < MaxQueues
    /\ o = "queue" => ~chan[t].open
    /\ op' = [op EXCEPT ![t] = o]
    /\ mode' = [mode EXCEPT ![t] = m]
    /\ status' = [status EXCEPT ![t] = "none"]
    /\ code' = [code EXCEPT ![t] = NoCode]
    /\ calls' = [calls EXCEPT ![t] = <<>>]
    /\ LET chk == check_support(supported_reports, ReportIdOf(o))
       IN  IF chk.kind = "Ok"
           THEN /\ pc' = [pc EXCEPT ![t] = "dispatch"]
                /\ result' = [result EXCEPT ![t] = ResNone]
           ELSE /\ pc' = [pc EXCEPT ![t] = "done"]
                /\ result' = [result EXCEPT ![t] = chk]
    /\ supported_reports' = supported_reports \cup {ReportIdOf(o)}
    /\ exc_out' = [exc_out EXCEPT ![t] = NoDetail]
    /\ capability_out' = [capability_out EXCEPT ![t] = ZeroCap]
    /\ capEpoch' = [capEpoch EXCEPT ![t] = 0]
    /\ caps' = [caps EXCEPT ![t] = NoCapability]
    /\ UNCHANGED <<uiVars, sdkException, recorded, enumVars, chanVars, deviceHistory, sdkReturns, live, lockHolder, lockCalls, inCall,
                   report_list, tablet, owners, queues,
                   ifaceLog>>

\* clear(), inking(enabled), capability() or queue() is called by thread t:
\* check_support decides whether dispatch is reached.
Call(t, o, m) ==
    /\ t \in live
    /\ pc[t] \in {"idle", "done"}
    /\ tablet = "alive"
    /\ o = "queue" => queues + Cardinality(Opening) < MaxQueues
    /\ o = "queue" => ~chan[t].open
    /\ op' = [op EXCEPT ![t] = o]
    /\ mode' = [mode EXCEPT ![t] = m]
    /\ status' = [status EXCEPT ![t] = "none"]
    /\ code' = [code EXCEPT ![t] = NoCode]
    /\ calls' = [calls EXCEPT ![t] = <<>>]
    /\ LET chk == check_support(supported_reports, ReportIdOf(o))
       IN  IF chk.kind = "Ok"
           THEN /\ pc' = [pc EXCEPT ![t] = "dispatch"]
                /\ result' = [result EXCEPT ![t] = ResNone]
           ELSE /\ pc' = [pc EXCEPT ![t] = "done"]
                /\ result' = [result EXCEPT ![t] = chk]
    /\ exc_out' = [exc_out EXCEPT ![t] = NoDetail]
    /\ capability_out' = [capability_out EXCEPT ![t] = ZeroCap]
    /\ capEpoch' = [capEpoch EXCEPT ![t] = 0]
    /\ caps' = [caps EXCEPT ![t] = NoCapability]
    /\ UNCHANGED <<uiVars, sdkException, recorded, enumVars, chanVars, deviceHistory, sdkReturns, live, lockHolder, lockCalls, inCall,
                   report_list, tablet, supported_reports, owners, queues,
                   ifaceLog>>

clear(t) == Call(t, "clear", "none")

inking(t) == \E enabled \in BOOLEAN :
                Call(t, "inking", IF enabled THEN "On" ELSE "Off")

capability(t) == Call(t, "capability", "none")

queue(t) == Call(t, "queue", "none")

\* Queue::new(self, caps): the Queue keeps a reference to the connection.
QueueNew(t) ==
    /\ pc[t] = "queue_new"
    /\ owners' = owners + 1
    /\ queues' = queues + 1
    /\ chan' = [chan EXCEPT ![t] = [NoChannel EXCEPT !.open = TRUE]]
    /\ result' = [result EXCEPT ![t] = ResOk("Queue")]
    /\ pc' = [pc EXCEPT ![t] = "done"]
    /\ UNCHANGED <<uiVars, excVars, enumVars, recv_out, recvTick, capVars, sdkReturns, live, code, op, mode, status, calls, lockHolder,
                   lockCalls, inCall, report_list, tablet, supported_reports,
                   ifaceLog>>

\* A reference that runs Drop for RawTabletConnection whenever it goes away.
Release_tearing_down(p) ==
    /\ owners' = owners - 1
    /\ op' = [op EXCEPT ![p] = "drop"]
    /\ mode' = [mode EXCEPT ![p] = "none"]
    /\ calls' = [calls EXCEPT ![p] = <<>>]
    /\ pc' = [pc EXCEPT ![p] = "dispatch"]

\* One reference to the connection goes away; the last one runs
\* Drop for RawTabletConnection.
Release(p) ==
    /\ owners' = owners - 1
    /\ op' = [op EXCEPT ![p] = "drop"]
    /\ mode' = [mode EXCEPT ![p] = "none"]
    /\ calls' = [calls EXCEPT ![p] = <<>>]
    /\ pc' = [pc EXCEPT ![p] = IF owners = 1 THEN "dispatch" ELSE "done"]

\* The Tablet is dropped.  No &self method can be running at that moment.
DropTablet ==
    /\ pc[Main] = "done"
    /\ tablet = "alive"
    /\ \A t \in Threads : pc[t] \in {"idle", "done", "panicked"}
    /\ tablet' = "dropped"
    /\ Release(Main)
    /\ UNCHANGED <<uiVars, excVars, enumVars, chanVars, capVars, sdkReturns, live, code, status, result, lockHolder, lockCalls,
                   inCall, report_list, supported_reports, queues, ifaceLog>>

\* A Queue is dropped by thread t.
DropQueue(t) ==
    /\ t \in live
    /\ pc[t] \in {"idle", "done"}
    /\ queues > 0
    /\ chan[t].open
    /\ chan' = [chan EXCEPT ![t] = NoChannel]
    /\ recv_out' = [recv_out EXCEPT ![t] = RecvNone]
    /\ recvTick' = [recvTick EXCEPT ![t] = FALSE]
    /\ queues' = queues - 1
    /\ status' = [status EXCEPT ![t] = "none"]
    /\ code' = [code EXCEPT ![t] = NoCode]
    /\ result' = [result EXCEPT ![t] = ResNone]
    /\ exc_out' = [exc_out EXCEPT ![t] = NoDetail]
    /\ capability_out' = [capability_out EXCEPT ![t] = ZeroCap]
    /\ capEpoch' = [capEpoch EXCEPT ![t] = 0]
    /\ caps' = [caps EXCEPT ![t] = NoCapability]
    /\ Release(t)
    /\ UNCHANGED <<uiVars, sdkException, recorded, enumVars, deviceHistory, sdkReturns, live, lockHolder, lockCalls, inCall,
                   report_list, tablet, supported_reports, ifaceLog>>

\* ------------------------------------------------------------- Queue
\* try_recv that hands out the newest buffered Event.
try_recv_newest_first(t) ==
    /\ t \in live
    /\ pc[t] \in {"idle", "done"}
    /\ chan[t].open
    /\ recvTick' = [recvTick EXCEPT ![t] = ~@]
    /\ IF chan[t].buffer # <<>>
       THEN LET n == Len(chan[t].buffer)
            IN  /\ recv_out' = [recv_out EXCEPT ![t] =
                                   RecvEvent(chan[t].buffer[n])]
                /\ chan' = [chan EXCEPT
                     ![t].buffer = SubSeq(@, 1, n - 1),
                     ![t].received = Append(@, chan[t].buffer[n])]
       ELSE /\ recv_out' = [recv_out EXCEPT ![t] =
                               IF tablet = "alive" THEN RecvEmpty
                               ELSE RecvDisconnected]
            /\ UNCHANGED chan
    /\ UNCHANGED <<uiVars, excVars, enumVars, capVars, sdkReturns, live, pc, op, mode, status,
                   code, result, calls, lockHolder, lockCalls, inCall,
                   report_list, tablet, supported_reports, owners, queues,
                   ifaceLog>>

\* Queue::try_recv by the thread that holds the Queue: the oldest buffered
\* Event, or "empty" while the producer is alive, or "disconnected".  It
\* waits for nothing.
try_recv(t) ==
    /\ t \in live
    /\ pc[t] \in {"idle", "done"}
    /\ chan[t].open
    /\ recvTick' = [recvTick EXCEPT ![t] = ~@]
    /\ IF chan[t].buffer # <<>>
       THEN /\ recv_out' = [recv_out EXCEPT ![t] =
                               RecvEvent(Head(chan[t].buffer))]
            /\ chan' = [chan EXCEPT
                 ![t].buffer = Tail(@),
                 ![t].received = Append(@, Head(chan[t].buffer))]
       ELSE /\ recv_out' = [recv_out EXCEPT ![t] =
                               IF tablet = "alive" THEN RecvEmpty
                               ELSE RecvDisconnected]
            /\ UNCHANGED chan
    /\ UNCHANGED <<uiVars, excVars, enumVars, capVars, sdkReturns, live, pc, op, mode, status,
                   code, result, calls, lockHolder, lockCalls, inCall,
                   report_list, tablet, supported_reports, owners, queues,
                   ifaceLog>>

\* The native report callback of the Queue held by t decodes a report and
\* pushes the Event; it runs while the Tablet lives and never waits for the
\* consumer.
Push(t) ==
    /\ chan[t].open
    /\ tablet = "alive"
    /\ Len(chan[t].pushed) < MaxEvents
    /\ \E e \in Events :
          chan' = [chan EXCEPT ![t].buffer = Append(@, e),
                               ![t].pushed = Append(@, e)]
    /\ UNCHANGED <<uiVars, recv_out, recvTick, excVars, enumVars, capVars, sdkReturns, live, pc,
                   op, mode, status, code, result, calls, lockHolder,
                   lockCalls, inCall, report_list, tablet, supported_reports,
                   owners, queues, ifaceLog>>

Next ==
    \/ ConnectBegin
    \/ CreateEnd
    \/ DropTablet
    \/ \E p \in Procs : Lock(p)
    \/ \E p \in Procs : NativeBegin(p)
    \/ \E p \in Procs : NativeEnd(p)
    \/ \E p \in Procs : Unlock(p)
    \/ \E p \in Procs : Translate(p)
    \/ \E p \in Procs : GetException(p)
    \/ \E t \in Threads : clear(t)
    \/ \E t \in Threads : inking(t)
    \/ \E t \in Threads : capability(t)
    \/ \E t \in Threads : queue(t)
    \/ \E t \in Threads : QueueNew(t)
    \/ \E t \in Threads : DropQueue(t)

Spec == Init /\ [][Next]_vars

\* ------------------------------------------------- the enumeration runs
\* The statuses drawn in the enumeration runs: success, an exception, a
\* misuse code and an integer outside the named codes.
EnumStatuses ==
    {"Success", "Exception_device_removed", "ErrorSizeof", "Undefined"}

\* Nothing is enumerated yet; no worker thread exists.
InitEnum ==
    /\ live = {}
    /\ sdkReturns = EnumStatuses
    /\ connector = NoDevice
    /\ Idle

NextEnum ==
    \/ ListDevicesBegin
    \/ ListDevicesEnd
    \/ ConnectorsNext
    \/ ConnectorInfo
    \/ ConnectBegin
    \/ CreateEnd
    \/ DropTablet
    \/ \E p \in Procs : Lock(p)
    \/ \E p \in Procs : NativeBegin(p)
    \/ \E p \in Procs : NativeEnd(p)
    \/ \E p \in Procs : Unlock(p)
    \/ \E p \in Procs : Translate(p)
    \/ \E p \in Procs : GetException(p)

SpecEnum == InitEnum /\ [][NextEnum]_vars

\* -------------------------------------------------- the capability runs
\* The device's configuration changes.
DeviceChange ==
    /\ tablet = "alive"
    /\ Len(deviceHistory) <= MaxDeviceChanges
    /\ \E c \in CapStructs \ {deviceHistory[Len(deviceHistory)]} :
          deviceHistory' = Append(deviceHistory, c)
    /\ UNCHANGED <<uiVars, capability_out, capEpoch, caps, excVars, enumVars, chanVars,
                   sdkReturns, live, pc, op, mode, status, code, result,
                   calls, lockHolder, lockCalls, inCall, report_list, tablet,
                   supported_reports, owners, queues, ifaceLog>>

\* Both worker threads query the capability of a device that may change.
InitCap ==
    /\ live = Threads
    /\ sdkReturns = CoreStatuses
    /\ connector = FirstDevice
    /\ Idle

NextCap ==
    \/ ConnectBegin
    \/ CreateEnd
    \/ DropTablet
    \/ DeviceChange
    \/ \E p \in Procs : Lock(p)
    \/ \E p \in Procs : NativeBegin(p)
    \/ \E p \in Procs : NativeEnd(p)
    \/ \E p \in Procs : Unlock(p)
    \/ \E p \in Procs : Translate(p)
    \/ \E p \in Procs : GetException(p)
    \/ \E t \in Threads : capability(t)

SpecCap == InitCap /\ [][NextCap]_vars

\* ------------------------------------------------------- the queue runs
\* One worker thread opens a Queue and polls it while reports arrive.
InitQueue ==
    /\ live = {Thread(1)}
    /\ sdkReturns = CoreStatuses
    /\ connector = FirstDevice
    /\ Idle

NextQueue ==
    \/ ConnectBegin
    \/ CreateEnd
    \/ DropTablet
    \/ \E p \in Procs : Lock(p)
    \/ \E p \in Procs : NativeBegin(p)
    \/ \E p \in Procs : NativeEnd(p)
    \/ \E p \in Procs : Unlock(p)
    \/ \E p \in Procs : Translate(p)
    \/ \E p \in Procs : GetException(p)
    \/ \E t \in Threads : queue(t)
    \/ \E t \in Threads : QueueNew(t)
    \/ \E t \in Threads : DropQueue(t)
    \/ \E t \in Threads : Push(t)
    \/ \E t \in Threads : try_recv(t)

SpecQueue == InitQueue /\ [][NextQueue]_vars

\* ------------------------------------------- window.rs: the preview path
\* ManagementWindow::controller: a controller with a sender of the notice
\* and a clone of the window's own sender of the channel.
controller(c) ==
    /\ managementWindow # "dropped"
    /\ ctl[c] = "none"
    /\ ctl' = [ctl EXCEPT ![c] = "idle"]
    /\ UNCHANGED <<managementWindow, updates, update_out, display_blobs,
                   display_update, display, uiPanic, sent, taken, shown>>
    /\ UNCHANGED <<stuVars, pickVars>>

\* The derived Clone of ManagementWindowController: d is a clone of c.
Clone(c, d) ==
    /\ ctl[c] # "none"
    /\ ctl[d] = "none"
    /\ ctl' = [ctl EXCEPT ![d] = "idle"]
    /\ UNCHANGED <<managementWindow, updates, update_out, display_blobs,
                   display_update, display, uiPanic, sent, taken, shown>>
    /\ UNCHANGED <<stuVars, pickVars>>

\* update_preview that posts the notice first and sends the blob after it.
update_preview_notice_first(c) ==
    /\ \/ /\ ctl[c] = "idle"
          /\ updates < MaxUpdates
          /\ updates' = updates + 1
          /\ IF managementWindow = "dropped"
             THEN /\ update_out' = [update_out EXCEPT ![c] = "Disconnected"]
                  /\ UNCHANGED <<ctl, display_update>>
             ELSE /\ display_update' = display_update + 1
                  /\ ctl' = [ctl EXCEPT ![c] = "sent"]
                  /\ UNCHANGED update_out
          /\ UNCHANGED <<display_blobs, sent>>
       \/ /\ ctl[c] = "sent"
          /\ \E source \in Canvases, decodes \in BOOLEAN :
                LET blob == Blob(source, Len(sent) + 1, decodes)
                IN  /\ display_blobs' =
                           IF managementWindow = "dropped"
                           THEN display_blobs
                           ELSE Append(display_blobs, blob)
                    /\ sent' = Append(sent, blob)
          /\ update_out' = [update_out EXCEPT ![c] = "Ok"]
          /\ ctl' = [ctl EXCEPT ![c] = "idle"]
          /\ UNCHANGED <<updates, display_update>>
    /\ UNCHANGED <<managementWindow, display, uiPanic, taken, shown>>
    /\ UNCHANGED <<stuVars, pickVars>>

\* ManagementWindowController::update_preview, in its two steps: the blob
\* is sent into the channel (an Err of the send is returned at once as
\* ManagementWindowDisconnected), then the notice is posted and Ok returned.
\* A notice posted to a window that is gone reaches nothing.
update_preview(c) ==
    /\ \/ /\ ctl[c] = "idle"
          /\ updates < MaxUpdates
          /\ updates' = updates + 1
          /\ IF managementWindow = "dropped"
             THEN /\ update_out' = [update_out EXCEPT ![c] = "Disconnected"]
                  /\ UNCHANGED <<ctl, display_blobs, sent>>
             ELSE /\ \E source \in Canvases, decodes \in BOOLEAN :
                        LET blob == Blob(source, Len(sent) + 1, decodes)
                        IN  /\ display_blobs' = Append(display_blobs, blob)
                            /\ sent' = Append(sent, blob)
                  /\ ctl' = [ctl EXCEPT ![c] = "sent"]
                  /\ UNCHANGED update_out
          /\ UNCHANGED display_update
       \/ /\ ctl[c] = "sent"
          /\ display_update' =
                 IF managementWindow = "dropped"
                 THEN display_update
                 ELSE display_update + 1
          /\ update_out' = [update_out EXCEPT ![c] = "Ok"]
          /\ ctl' = [ctl EXCEPT ![c] = "idle"]
          /\ UNCHANGED <<updates, display_blobs, sent>>
    /\ UNCHANGED <<managementWindow, display, uiPanic, taken, shown>>
    /\ UNCHANGED <<stuVars, pickVars>>

\* ManagementWindow::on_display_update, run by the dispatch loop for one
\* posted notice: try_recv().unwrap(), Bitmap::from_bin(..).unwrap(), then
\* the ImageFrame is resized and given the bitmap.
on_display_update ==
    /\ managementWindow = "open"
    /\ uiPanic = "none"
    /\ display_update > 0
    /\ display_update' = display_update - 1
    /\ IF display_blobs = <<>>
       THEN /\ uiPanic' = "try_recv"
            /\ UNCHANGED <<display_blobs, display, taken, shown>>
       ELSE LET blob == Head(display_blobs)
            IN  /\ display_blobs' = Tail(display_blobs)
                /\ taken' = Append(taken, blob)
                /\ IF blob.decodes
                   THEN /\ display' = blob
                        /\ shown' = Append(shown, blob)
                        /\ UNCHANGED uiPanic
                   ELSE /\ uiPanic' = "from_bin"
                        /\ UNCHANGED <<display, shown>>
    /\ UNCHANGED <<managementWindow, ctl, updates, update_out, sent>>
    /\ UNCHANGED <<stuVars, pickVars>>

\* ManagementWindow::on_exit: the window was told to close, the dispatch of
\* its thread's events stops.
on_exit ==
    /\ managementWindow = "open"
    /\ uiPanic = "none"
    /\ managementWindow' = "stopped"
    /\ UNCHANGED <<ctl, updates, update_out, display_blobs, display_update,
                   display, uiPanic, sent, taken, shown>>
    /\ UNCHANGED <<stuVars, pickVars>>

\* The ManagementWindow is dropped, after its dispatch stopped or while its
\* thread unwinds: the Receiver goes with what it buffers, the window with
\* the notices posted to it.
DropWindow ==
    /\ \/ managementWindow = "stopped"
       \/ managementWindow = "open" /\ uiPanic # "none"
    /\ managementWindow' = "dropped"
    /\ display_blobs' = <<>>
    /\ display_update' = 0
    /\ UNCHANGED <<ctl, updates, update_out, display, uiPanic, sent, taken,
                   shown>>
    /\ UNCHANGED <<stuVars, pickVars>>

\* The preview runs: the window is built, no controller exists yet.
InitPreview ==
    /\ live = {}
    /\ sdkReturns = {"Success"}
    /\ connector = NoDevice
    /\ Idle

NextPreview ==
    \/ \E c \in Controllers : controller(c)
    \/ \E c, d \in Controllers : Clone(c, d)
    \/ \E c \in Controllers : update_preview(c)
    \/ on_display_update
    \/ on_exit
    \/ DropWindow

SpecPreview == InitPreview /\ [][NextPreview]_vars

\* ------------------------------------------- window.rs: pick_tablet
\* pick_tablet up to its length check: list_devices (whose unwrap panics on
\* every failure of WacomGSS_getUsbDevices), the Information of every
\* Connector collected into a Vec, and the early return for an empty Vec.
pick_tablet ==
    /\ pickPc = "idle"
    /\ \E s \in sdkReturns, got \in sdkReturns, a \in DeviceArrays :
          LET r == Unwrapped(s, got, NoDetail)
              connectors == Handle_wrap_slice(a.devices, a.count)
              collected == Collect(connectors, 0)
          IN  IF r.kind = "Panic"
              THEN /\ pick_out' = PickPanic(r.panic)
                   /\ pickPc' = "panicked"
                   /\ UNCHANGED <<enumerated, devices>>
              ELSE /\ enumerated' = a
                   /\ devices' = collected
                   /\ IF Len(collected) = 0
                      THEN /\ pick_out' = PickErr("NoDevicesAvailable")
                           /\ pickPc' = "returned"
                      ELSE /\ pickPc' = "listed"
                           /\ UNCHANGED pick_out
    /\ UNCHANGED <<built, collection, selection, selects, channel, endedBy>>
    /\ UNCHANGED <<stuVars, previewVars>>

\* DeviceSelection::new, NativeUi::build_ui and the OnInit handler
\* DeviceSelection::init: the assertion on the list, the window built or
\* not, then the devices drained into the selection box in their order and
\* entry 0 selected.
build_ui ==
    /\ pickPc = "listed"
    /\ built' = built + 1
    /\ IF DeviceSelection_new(devices) # "built"
       THEN /\ pick_out' = PickPanic(DeviceSelection_new(devices))
            /\ pickPc' = "panicked"
            /\ UNCHANGED <<devices, collection, selection>>
       ELSE \E ok \in BOOLEAN :
               IF ok
               THEN /\ collection' = devices
                    /\ devices' = <<>>
                    /\ selection' = 0
                    /\ pickPc' = "dialog"
                    /\ UNCHANGED pick_out
               ELSE /\ pick_out' = PickPanic("could not build window")
                    /\ pickPc' = "panicked"
                    /\ UNCHANGED <<devices, collection, selection>>
    /\ UNCHANGED <<enumerated, selects, channel, endedBy>>
    /\ UNCHANGED <<stuVars, previewVars>>

\* The user picks another entry of the selection box.
Select(i) ==
    /\ pickPc = "dialog"
    /\ selects < MaxSelects
    /\ i \in 0..(Len(collection) - 1)
    /\ i # selection
    /\ selection' = i
    /\ selects' = selects + 1
    /\ UNCHANGED <<pickPc, enumerated, devices, built, collection, channel,
                   endedBy, pick_out>>
    /\ UNCHANGED <<stuVars, previewVars>>

\* on_accept that answers with the first entry of the box.
on_accept_first_entry ==
    /\ pickPc = "dialog"
    /\ IF selection = -1
       THEN /\ pick_out' = PickPanic("unwrap on None")
            /\ pickPc' = "panicked"
            /\ UNCHANGED <<collection, channel, endedBy>>
       ELSE /\ collection' = swap_remove(collection, 0).rest
            /\ channel' = swap_remove(collection, 0).removed
            /\ endedBy' = "accept"
            /\ pickPc' = "stopped"
            /\ UNCHANGED pick_out
    /\ UNCHANGED <<enumerated, devices, built, selection, selects>>
    /\ UNCHANGED <<stuVars, previewVars>>

\* DeviceSelection::on_accept, the handler of the Connect button: the
\* selected entry is removed from the box's collection and put into the
\* channel, then the dispatch is stopped.
on_accept ==
    /\ pickPc = "dialog"
    /\ IF selection = -1
       THEN /\ pick_out' = PickPanic("unwrap on None")
            /\ pickPc' = "panicked"
            /\ UNCHANGED <<collection, channel, endedBy>>
       ELSE /\ collection' = swap_remove(collection, selection).rest
            /\ channel' = swap_remove(collection, selection).removed
            /\ endedBy' = "accept"
            /\ pickPc' = "stopped"
            /\ UNCHANGED pick_out
    /\ UNCHANGED <<enumerated, devices, built, selection, selects>>
    /\ UNCHANGED <<stuVars, previewVars>>

\* DeviceSelection::on_cancel, the handler of the Cancel button ("cancel")
\* and of OnWindowClose ("close"): the dispatch is stopped.
on_cancel(source) ==
    /\ pickPc = "dialog"
    /\ endedBy' = source
    /\ pickPc' = "stopped"
    /\ UNCHANGED <<enumerated, devices, built, collection, selection, selects,
                   channel, pick_out>>
    /\ UNCHANGED <<stuVars, previewVars>>

\* dispatch_thread_events has returned: pick_tablet takes what is in the
\* channel and returns Ok of it, or Cancelled when nothing is.
pick_tablet_return ==
    /\ pickPc = "stopped"
    /\ channel' = NoInformation
    /\ pick_out' = IF channel # NoInformation
                   THEN PickOk(channel)
                   ELSE PickErr("Cancelled")
    /\ pickPc' = "returned"
    /\ UNCHANGED <<enumerated, devices, built, collection, selection, selects,
                   endedBy>>
    /\ UNCHANGED <<stuVars, previewVars>>

\* The runs of pick_tablet: nothing was enumerated yet.
InitPick ==
    /\ live = {}
    /\ sdkReturns = EnumStatuses
    /\ connector = NoDevice
    /\ pickPc = "idle"
    /\ Idle

NextPick ==
    \/ pick_tablet
    \/ build_ui
    \/ \E i \in 0..(MaxDevices - 1) : Select(i)
    \/ on_accept
    \/ \E source \in {"cancel", "close"} : on_cancel(source)
    \/ pick_tablet_return

SpecPick == InitPick /\ [][NextPick]_vars


TypeOK ==
    /\ pc \in [Procs -> {"idle", "listing", "creating", "dispatch", "locked", "incall",
                         "called", "translate", "getexc", "queue_new",
                         "done", "panicked"}]
    /\ lockHolder \in Procs \cup {NoProc}
    /\ owners \in 0..(1 + MaxQueues)
    /\ queues \in 0..MaxQueues
    /\ supported_reports \subseteq ReportIds

\* ================================================================ claims
Finished(p) == pc[p] \in {"done", "panicked"}

\* The native calls of an operation that take the interface handle.
OnInterface(seq) ==
    SelectSeq(seq, LAMBDA f : f \notin {"getException", "create_1"})

\* The Exception variant named after each exception status.
ExceptionOfStatus(s) ==
    CASE s = "Exception_system_error" -> "SystemError"
      [] s = "Exception_not_connected" -> "NotConnected"
      [] s = "Exception_device_removed" -> "DeviceRemoved"
      [] s = "Exception_write_not_supported" -> "WriteNotSupported"
      [] s = "Exception_io" -> "InputOutput"
      [] s = "Exception_timeout" -> "TimedOut"
      [] OTHER -> "Other"

\* The native function each command is a wrapper of.
NativeFnOf(o) ==
    CASE o = "clear" -> "setClearScreen"
      [] o = "inking" -> "setInkingMode"
      [] OTHER -> "getCapability"

\* C1: check_support(id) is Ok exactly for the ids of the supported set and
\* the unsupported-report-id error carrying id otherwise; a clear(), inking()
\* or capability() whose id is absent returns that error at once, with no
\* native call and without the connection lock, and one whose id is present
\* never returns it.
C1_CheckSupportGate ==
    /\ \A id \in ReportIds :
          /\ id \in supported_reports
                => check_support(supported_reports, id).kind = "Ok"
          /\ id \notin supported_reports
                => /\ check_support(supported_reports, id).kind = "ClientError"
                   /\ check_support(supported_reports, id).report_id = id
    /\ \A t \in Threads :
          op[t] \in {"clear", "inking", "capability"} =>
             IF ReportIdOf(op[t]) \in supported_reports
             THEN result[t].kind # "ClientError"
             ELSE /\ pc[t] = "done"
                  /\ result[t].kind = "ClientError"
                  /\ result[t].report_id = ReportIdOf(op[t])
                  /\ calls[t] = <<>>
                  /\ lockHolder # t
                  /\ t \notin inCall

\* C1 witness: clear() was rejected on a Tablet that supports inking.
C1_Witness ==
    \E t \in Threads :
       /\ op[t] = "clear"
       /\ pc[t] = "done"
       /\ result[t].kind = "ClientError"
       /\ result[t].report_id = ReportId_ClearScreen
       /\ ReportId_InkingMode \in supported_reports

\* C2: a clear(), inking() or capability() whose report id is supported makes
\* exactly one native call on the interface, its own, made while the caller
\* holds the connection lock, and ends with the translation of that call's
\* status: Ok exactly for the success status, the Error of the matching
\* Exception variant for an exception status, and nothing is returned (the
\* operation panics) for a status that translates to no public value.
C2_OneCallTranslated ==
    \A t \in Threads :
       (op[t] \in {"clear", "inking", "capability"}
          /\ ReportIdOf(op[t]) \in supported_reports) =>
          /\ t \in inCall => lockHolder = t
          /\ Len(OnInterface(calls[t])) <= 1
          /\ pc[t] \in {"incall", "called", "translate", "getexc",
                        "done", "panicked"}
                => OnInterface(calls[t]) = <<NativeFnOf(op[t])>>
          /\ Finished(t) =>
                /\ result[t].kind = "Ok" <=> status[t] = "Success"
                /\ result[t].kind = "Ok" => pc[t] = "done"
                /\ result[t].kind # "Ok" =>
                      \/ /\ pc[t] = "done"
                         /\ status[t] \in ExceptionStatuses
                         /\ result[t].kind = "Err"
                         /\ result[t].exception = ExceptionOfStatus(status[t])
                      \/ /\ pc[t] = "panicked"
                         /\ result[t].kind = "Panic"

\* C2 witness: one thread's command returned Ok and another's returned the
\* Error of its failing native call.
C2_Witness ==
    \E t, u \in Threads :
       /\ op[t] = "inking" /\ pc[t] = "done" /\ result[t].kind = "Ok"
       /\ calls[t] = <<"setInkingMode">>
       /\ op[u] = "clear" /\ pc[u] = "done" /\ result[u].kind = "Err"
       /\ status[u] = "Exception_device_removed"
       /\ OnInterface(calls[u]) = <<"setClearScreen">>

\* C3: at most one native call taking the interface handle is in progress at
\* any moment, and the process making it holds the connection lock.
C3_MutualExclusion ==
    /\ Cardinality(inCall) <= 1
    /\ \A p \in inCall : lockHolder = p /\ pc[p] = "incall"
    /\ \A p \in Procs : pc[p] = "incall" => p \in inCall

\* C3 witness: a thread is inside a native call while another waits for the
\* lock.
C3_Witness ==
    \E t, u \in Threads :
       /\ t # u
       /\ t \in inCall
       /\ pc[u] = "dispatch"

\* C4 (as claimed): every acquisition of the connection lock, teardown's
\* included, covers exactly one native call; translation and the
\* exception-detail query run without the lock; no operation ends holding it.
C4_Original ==
    /\ \A p \in Procs : pc[p] = "called" => lockCalls = 1
    /\ lockCalls <= 1
    /\ \A p \in Procs :
          pc[p] \in {"idle", "creating", "dispatch", "translate", "getexc",
                     "queue_new", "done", "panicked"} => lockHolder # p

\* C4 (amended): an acquisition by the report-table query, clear, inking,
\* capability or queue covers exactly one native call; teardown's single
\* acquisition covers its two calls; the lock is held only from the
\* acquisition to the return of the last covered call, so translation, the
\* exception-detail query and everything else run without it, and no
\* operation ends holding it.
C4_LockSpan ==
    /\ \A p \in Procs :
          /\ pc[p] = "called" =>
                lockCalls = (IF op[p] = "drop" THEN 2 ELSE 1)
          /\ pc[p] \in {"locked", "incall", "called"} =>
                /\ lockHolder = p
                /\ lockCalls <= (IF op[p] = "drop" THEN 2 ELSE 1)
          /\ pc[p] \in {"idle", "creating", "dispatch", "translate", "getexc",
                        "queue_new", "done", "panicked"} => lockHolder # p
    /\ lockHolder # NoProc => pc[lockHolder] \in {"locked", "incall", "called"}

\* C4 witness: teardown has made both calls under one acquisition while a
\* thread that finished a command holds nothing.
C4_Witness ==
    \E p \in Procs :
       /\ op[p] = "drop"
       /\ pc[p] = "called"
       /\ lockCalls = 2
       /\ lockHolder = p

\* C5: disconnect and then free are called on the interface, each once, by
\* the drop of the last owner and never while an owner is left; the status of
\* either call changes nothing.
C5_Teardown ==
    /\ Len(ifaceLog) <= 2
    /\ Len(ifaceLog) >= 1 => ifaceLog[1].fn = "disconnect"
    /\ Len(ifaceLog) >= 2 => ifaceLog[2].fn = "free"
    /\ ifaceLog # <<>> => owners = 0
    /\ \A i \in 1..Len(ifaceLog) : ifaceLog[i].by = ifaceLog[1].by
    /\ ( /\ owners = 0
         /\ \E p \in Procs : op[p] = "drop"
         /\ \A p \in Procs : op[p] = "drop" => Finished(p) )
       => Len(ifaceLog) = 2

\* C5 witness: the last owner was a Queue dropped after the Tablet, the
\* disconnect failed and the free was still made.
C5_Witness ==
    /\ Len(ifaceLog) = 2
    /\ ifaceLog[1].failed
    /\ ifaceLog[1].by \in Threads
    /\ tablet = "dropped"
    /\ \A p \in Procs : op[p] = "drop" => Finished(p)

\* connect() is over for the main process: it returned, or it is unwinding.
ConnectOver == Finished(Main) \/ op[Main] = "drop"

\* The calls logged for the main process are those of its connect().
InConnect ==
    \/ op[Main] \in {"connect", "wrap"}
    \/ op[Main] = "drop" /\ result[Main].kind = "Panic"

\* The report-table query of connect() returned status s.
QueryReturned(s) ==
    /\ InConnect
    /\ Len(calls[Main]) >= 2
    /\ calls[Main][2] = "getReportCountLengths"
    /\ op[Main] = "wrap" => pc[Main] \notin {"locked", "incall"}
    /\ status[Main] = s

\* The panic of a failing exception-detail query (error.rs:118-123).
DetailQueryFailed(r) ==
    r.kind = "Panic" /\ r.panic \in {"could not get exception",
                                      "invalid return value"}

\* C6: when the report-table query returns the native `unsupported` status
\* (and the exception-detail query works), connect still returns a Tablet with
\* an empty supported set, on which every command returns the
\* unsupported-report-id error.
C6_UnsupportedQueryStillConnects ==
    (QueryReturned("Unsupported") /\ ConnectOver) =>
       \/ DetailQueryFailed(result[Main])
       \/ /\ result[Main] = ResOk("Tablet")
          /\ tablet # "none"
          /\ supported_reports = {}
          /\ \A t \in Threads :
                (op[t] \in Commands /\ Finished(t))
                   => result[t].kind = "ClientError"

\* C7 (as claimed): connect makes exactly one create-interface call; on the
\* success status the result is a Tablet; on an exception status the result
\* is the Error of the matching variant, there is no Tablet and no
\* report-table query, disconnect or free is made.
C7_Original ==
    /\ (InConnect /\ pc[Main] # "idle") =>
          Len(SelectSeq(calls[Main], LAMBDA f : f = "create_1")) = 1
    /\ (ConnectOver /\ op[Main] # "connect") =>
          result[Main] = ResOk("Tablet") /\ tablet # "none"
    /\ (op[Main] = "connect" /\ Finished(Main)
          /\ status[Main] \in ExceptionStatuses) =>
          /\ pc[Main] = "done"
          /\ result[Main].kind = "Err"
          /\ result[Main].exception = ExceptionOfStatus(status[Main])
          /\ tablet = "none"
          /\ OnInterface(calls[Main]) = <<>>

\* C7 (amended): connect makes exactly one create-interface call.  On the
\* success status it goes on to the report-table query and the result is a
\* Tablet, unless the translation of the query's status panics (a status that
\* is neither success nor an exception, or a failing exception-detail query):
\* then there is no Tablet and the interface is disconnected and freed while
\* unwinding.  On an exception status the result is the Error of the matching
\* variant, unless the exception-detail query fails and connect panics; on
\* any non-success status there is no Tablet and no report-table query,
\* disconnect or free.
C7_Connect ==
    /\ (InConnect /\ pc[Main] # "idle") =>
          Len(SelectSeq(calls[Main], LAMBDA f : f = "create_1")) = 1
    /\ (ConnectOver /\ op[Main] # "connect") =>
          \/ /\ result[Main] = ResOk("Tablet")
             /\ tablet # "none"
             /\ status[Main] \in {"Success"} \cup ExceptionStatuses
          \/ /\ result[Main].kind = "Panic"
             /\ tablet = "none"
             /\ QueryReturned(status[Main])
             /\ status[Main] # "Success"
             /\ status[Main] \in ExceptionStatuses
                   => DetailQueryFailed(result[Main])
             /\ Finished(Main) =>
                   /\ Len(ifaceLog) = 2
                   /\ ifaceLog[1].by = Main
    /\ (op[Main] = "connect" /\ Finished(Main)) =>
          /\ status[Main] # "Success"
          /\ tablet = "none"
          /\ owners = 0
          /\ OnInterface(calls[Main]) = <<>>
          /\ ifaceLog = <<>>
          /\ status[Main] \in ExceptionStatuses =>
                \/ /\ pc[Main] = "done"
                   /\ result[Main].kind = "Err"
                   /\ result[Main].exception = ExceptionOfStatus(status[Main])
                \/ /\ pc[Main] = "panicked"
                   /\ DetailQueryFailed(result[Main])

\* C7 witness: the create-interface call timed out and connect returned the
\* TimedOut error after that single call and the detail query.
C7_Witness ==
    /\ op[Main] = "connect"
    /\ pc[Main] = "done"
    /\ status[Main] = "Exception_timeout"
    /\ result[Main].kind = "Err"
    /\ result[Main].exception = "TimedOut"
    /\ calls[Main] = <<"create_1", "getException">>
    /\ tablet = "none"

\* C8: the status translation is total and hides no failure: success and
\* only success gives Ok; a misuse status gives one of the four misuse codes;
\* an exception status gives the Exception variant named after it; the
\* unsupported status gives Unsupported; any other integer panics.
C8_TranslationTotal ==
    \A p \in Procs :
       (status[p] # "none" /\ pc[p] \notin {"called", "translate"}) =>
          /\ code[p].tag = "Ok" <=> status[p] = "Success"
          /\ status[p] \in MisuseStatuses =>
                /\ code[p].tag = "Err"
                /\ code[p].code.kind \in {"Unspecified", "InvalidHandle",
                                          "InvalidParameter", "InvalidSizeOf"}
                /\ code[p].code.exception = "none"
          /\ status[p] \in ExceptionStatuses =>
                /\ code[p].tag = "Err"
                /\ code[p].code.kind = "Exception"
                /\ code[p].code.exception = ExceptionOfStatus(status[p])
                /\ code[p].code.exception \in Exception
          /\ status[p] = "Unsupported" =>
                /\ code[p].tag = "Err"
                /\ code[p].code = Code("Unsupported")
          /\ status[p] \notin DefinedStatuses =>
                /\ code[p].tag = "Panic"
                /\ result[p].kind = "Panic"
                /\ pc[p] # "done"

\* C8 witness: a command's native call returned an undefined status and the
\* thread panicked in the translation.
C8_Witness ==
    \E t \in Threads :
       /\ op[t] \in Commands
       /\ status[t] = "Undefined"
       /\ code[t].tag = "Panic"
       /\ pc[t] = "panicked"
       /\ result[t].panic = "invalid return value"

\* C9: a misuse status of the native call of connect, clear, inking or
\* capability never comes back as a value: the operation panics; every Err
\* a caller gets is a device exception (with the variant of an exception
\* status) or the unsupported-report-id error.
C9_MisuseAborts ==
    \A p \in Procs :
       /\ (status[p] \in MisuseStatuses
             /\ pc[p] \notin {"called", "translate", "getexc"}) =>
             /\ result[p].kind = "Panic"
             /\ pc[p] # "done"
       /\ result[p].kind = "Err" =>
             /\ status[p] \in ExceptionStatuses
             /\ result[p].exception \in Exception
       /\ (pc[p] = "done" /\ op[p] \in Commands \cup {"connect"}) =>
             result[p].kind \in {"Ok", "Err", "ClientError"}

\* C9 witness: clear() got the null-pointer status and panicked in
\* unwrap_to_general.
C9_Witness ==
    \E t \in Threads :
       /\ op[t] = "clear"
       /\ status[t] = "InvalidParameterNullPointer"
       /\ pc[t] = "panicked"
       /\ result[t].panic = "non-exception"

\* C10: when the native call of clear, inking, capability or connect returns
\* the `unsupported` status (and the exception-detail query works), the
\* operation does not panic: it returns a public error that is neither an
\* Exception variant nor the unsupported-report-id error.
C10_UnsupportedIsPublicError ==
    \A p \in Procs :
       (op[p] \in (Commands \ {"queue"}) \cup {"connect"}
          /\ status[p] = "Unsupported" /\ Finished(p)) =>
          \/ DetailQueryFailed(result[p])
          \/ /\ pc[p] = "done"
             /\ result[p].kind \notin {"Ok", "Panic", "ClientError"}
             /\ result[p].exception \notin Exception

\* The number of calls of the native function f in seq.
Count(seq, f) == Cardinality({i \in 1..Len(seq) : seq[i] = f})

\* The translation of the status of p's native call is over.
TranslationOver(p) == pc[p] \in {"done", "panicked", "queue_new"}

\* C11: a native call that returns an exception status is followed by exactly
\* one WacomGSS_getException call, made after it; an Error handed to the
\* caller carries the variant of the status and the message and secondary
\* code that call wrote; after a success status no such call is made.
C11_ExceptionDetail ==
    \A p \in Procs : op[p] # "drop" =>
        /\ status[p] = "Success" => Count(calls[p], "getException") = 0
        /\ ~TranslationOver(p) => Count(calls[p], "getException") = 0
        /\ (status[p] \in ExceptionStatuses /\ TranslationOver(p)) =>
              /\ Count(calls[p], "getException") = 1
              /\ Len(calls[p]) >= 2
              /\ calls[p][Len(calls[p])] = "getException"
        /\ result[p].kind = "Err" =>
              /\ status[p] \in ExceptionStatuses
              /\ result[p].exception = ExceptionOfStatus(status[p])
              /\ result[p].detail = exc_out[p]
              /\ exc_out[p] \in ExcDetails

C11_Witness ==
    \E t \in Threads :
        /\ status[t] = "Exception_timeout"
        /\ calls[t] = <<"setClearScreen", "getException">>
        /\ result[t] = ResErr("TimedOut", [data |-> 2, stu_code |-> 2])
        /\ exc_out[t] = [data |-> 2, stu_code |-> 2]

\* C12: list_devices() makes exactly one enumeration call; a status other
\* than success is fatal and leaves no sequence; after a success with n
\* devices the k-th request yields the k-th device of the array for k <= n
\* and "no more" for every k > n, and no request makes a native call.
C12_Enumeration ==
    /\ op[Main] = "list_devices" =>
          /\ Count(calls[Main], "getUsbDevices") = 1
          /\ calls[Main][1] = "getUsbDevices"
          /\ (TranslationOver(Main) /\ status[Main] # "Success") =>
                (pc[Main] = "panicked" /\ ~listed /\ yielded = <<>>)
          /\ (TranslationOver(Main) /\ status[Main] = "Success") =>
                /\ listed
                /\ result[Main] = ResOk("Connectors")
                /\ calls[Main] = <<"getUsbDevices">>
    /\ listed => Len(values) \in 0..MaxDevices
    /\ Len(yielded) = index
    /\ \A k \in 1..Len(yielded) :
          yielded[k] = IF k <= Len(values) THEN values[k] ELSE NoDevice
    /\ \A k \in 1..Len(values) : values[k] \in UsbDevices

C12_Witness ==
    /\ listed
    /\ op[Main] = "list_devices"
    /\ Len(values) = 2
    /\ values[1] # values[2]
    /\ yielded = <<values[1], values[2], NoDevice, NoDevice>>
    /\ calls[Main] = <<"getUsbDevices">>

\* C18: Connector::info() makes no native call and changes nothing but the
\* Information it returns, which carries the vendor, product and revision of
\* the device the Connector was enumerated for, call after call; the
\* Connector can be connected afterwards.
C18_InfoFrame ==
    /\ [](infoCalls > 0 =>
            /\ connector # NoDevice
            /\ \E k \in 1..Len(yielded) : yielded[k] = connector
            /\ info_out.id_vendor = connector.idVendor
            /\ info_out.id_product = connector.idProduct
            /\ info_out.bcd_device = connector.bcdDevice
            /\ (tablet = "none" /\ pc[Main] \in {"idle", "done"}) =>
                  ENABLED ConnectBegin)
    /\ [][infoCalls' > infoCalls =>
            UNCHANGED <<calls, connector, listVars, yielded, pc, op, status,
                        result, tablet, owners, excVars, ifaceLog>>]_vars

C18_Witness ==
    /\ infoCalls = MaxInfoCalls
    /\ connector \in UsbDevices
    /\ connector.bcdDevice = 65535
    /\ info_out = [id_vendor |-> 1386, id_product |-> 163, bcd_device |-> 65535]
    /\ tablet = "none"

\* The free call on the interface has been made.
FreeLogged == \E i \in 1..Len(ifaceLog) : ifaceLog[i].fn = "free"

\* Thread t makes a try_recv call in this step.
TryRecvStep(t) == recvTick'[t] # recvTick[t] /\ chan'[t].open

\* C13: what a Queue has handed out so far, followed by what it still
\* buffers, is what was pushed, in the order of the pushes; try_recv returns
\* the oldest buffered Event, "empty" when nothing is buffered and the Tablet
\* lives, "disconnected" when nothing is buffered and the Tablet is dropped,
\* and can always return at once.
C13_QueueOrder ==
    /\ [](\A t \in Threads :
            /\ chan[t].received \o chan[t].buffer = chan[t].pushed
            /\ (chan[t].open /\ t \in live /\ pc[t] \in {"idle", "done"}) =>
                  ENABLED try_recv(t))
    /\ [][\A t \in Threads : TryRecvStep(t) =>
            /\ chan[t].buffer # <<>> =>
                  /\ recv_out'[t] = RecvEvent(Head(chan[t].buffer))
                  /\ chan'[t].buffer = Tail(chan[t].buffer)
            /\ (chan[t].buffer = <<>> /\ tablet = "alive") =>
                  recv_out'[t] = RecvEmpty
            /\ (chan[t].buffer = <<>> /\ tablet = "dropped") =>
                  recv_out'[t] = RecvDisconnected]_vars

C13_Witness ==
    \E t \in Threads :
        /\ chan[t].pushed = <<"pen_down", "pen_up", "pen_down">>
        /\ chan[t].received = chan[t].pushed
        /\ recv_out[t] = RecvDisconnected
        /\ tablet = "dropped"

\* C14: with a Queue still open the dropped Tablet leaves the interface
\* alone; disconnect and free are called at most once each, free last, and
\* nothing calls into the interface after free; a try_recv on the drained
\* Queue of a dropped Tablet returns "disconnected".
C14_DropWithQueue ==
    /\ [](/\ Cardinality({i \in 1..Len(ifaceLog) :
                              ifaceLog[i].fn = "disconnect"}) <= 1
          /\ Cardinality({i \in 1..Len(ifaceLog) :
                              ifaceLog[i].fn = "free"}) <= 1
          /\ queues > 0 => ifaceLog = <<>>
          /\ FreeLogged =>
                /\ ifaceLog[Len(ifaceLog)].fn = "free"
                /\ inCall = {}
                /\ \A p \in Procs :
                      pc[p] \in {"idle", "done", "panicked", "called"})
    /\ [][\A t \in Threads :
            (TryRecvStep(t) /\ tablet = "dropped" /\ chan[t].buffer = <<>>) =>
                recv_out'[t] = RecvDisconnected]_vars

C14_Witness ==
    /\ tablet = "dropped"
    /\ queues = 1
    /\ ifaceLog = <<>>
    /\ \A p \in Procs : pc[p] \in {"idle", "done"}
    /\ \E t \in Threads :
          /\ chan[t].pushed # <<>>
          /\ recv_out[t] = RecvDisconnected

\* C15: queue() reaches Queue::new only after its capability() passed the
\* gate and its one native call returned success; when capability() fails,
\* queue() returns that failure (the unsupported-report-id error without a
\* native call, or the Error of the status) and the thread holds no Queue.
C15_QueueAfterCapability ==
    /\ [](\A t \in Threads :
            /\ (pc[t] = "queue_new" \/
                 (op[t] = "queue" /\ result[t] = ResOk("Queue"))) =>
                  /\ op[t] = "queue"
                  /\ ReportId_Capability \in supported_reports
                  /\ status[t] = "Success"
                  /\ calls[t] = <<"getCapability">>
            /\ (op[t] = "queue" /\ result[t] = ResOk("Queue")) => chan[t].open
            /\ (op[t] = "queue" /\ Finished(t) /\ result[t] # ResOk("Queue")) =>
                  /\ ~chan[t].open
                  /\ \/ /\ result[t] = ResClientError(ReportId_Capability)
                        /\ calls[t] = <<>>
                     \/ /\ result[t].kind = "Err"
                        /\ result[t].exception = ExceptionOfStatus(status[t])
                        /\ calls[t] = <<"getCapability", "getException">>
                     \/ result[t].kind = "Panic")
    /\ [][\A t \in Threads :
            (chan'[t].open /\ ~chan[t].open) =>
                /\ pc[t] = "queue_new"
                /\ queues' = queues + 1]_vars

C15_Witness ==
    \E t \in Threads :
        /\ op[t] = "queue"
        /\ pc[t] = "done"
        /\ result[t].kind = "Err"
        /\ result[t].exception = "DeviceRemoved"
        /\ ~chan[t].open
        /\ queues = 0

\* C16: the report-table query is made once, by connect, and by no command;
\* once the Tablet exists its supported set never changes.
C16_SupportedSetFixed ==
    /\ [](/\ \A t \in Threads :
                Count(calls[t], "getReportCountLengths") = 0
          /\ Count(calls[Main], "getReportCountLengths") <= 1
          /\ (tablet = "alive" /\ op[Main] = "wrap") =>
                Count(calls[Main], "getReportCountLengths") = 1)
    /\ [][tablet # "none" => supported_reports' = supported_reports]_vars

C16_Witness ==
    /\ tablet = "alive"
    /\ supported_reports = {ReportId_Capability, ReportId_InkingMode}
    /\ \E t \in Threads :
          /\ op[t] = "inking"
          /\ result[t].kind = "Err"
    /\ \E t \in Threads :
          /\ op[t] = "clear"
          /\ result[t] = ResClientError(ReportId_ClearScreen)

\* C19: when the report-table query succeeds with a table of length n, the
\* Tablet's supported set is the set of the ids below n whose entry is not
\* zero, so an id with a zero entry and an id from n on are unsupported and
\* an empty table gives the empty set.
C19_SupportedSetOfTable ==
    [][(tablet = "none" /\ tablet' = "alive" /\ status[Main] = "Success") =>
          /\ op[Main] = "wrap"
          /\ supported_reports' =
                {id \in 0..(Len(report_list) - 1) : report_list[id + 1] # 0}
          /\ \A id \in ReportIds :
                (id >= Len(report_list) \/ report_list[id + 1] = 0) =>
                    check_support(supported_reports', id) = ResClientError(id)
          /\ Len(report_list) = 0 => supported_reports' = {}]_vars

C19_Witness ==
    /\ tablet = "alive"
    /\ op[Main] = "wrap"
    /\ status[Main] = "Success"
    /\ supported_reports = {0, 2}
    /\ \A t \in Threads : pc[t] = "idle"

\* Thread t's capability() returned a Capability.
GotCapability(t) ==
    op[t] = "capability" /\ result[t] = ResOk("Capability")

\* C17: a capability() that returns a Capability has made its own native
\* query, and the five accessors give the numbers of screenWidth,
\* screenHeight, tabletMaxX, tabletMaxY and tabletMaxPressure which that
\* query read from the device; two calls that read the same configuration
\* return equal values.
C17_CapabilityRoundTrip ==
    /\ \A t \in Threads : GotCapability(t) =>
          /\ calls[t] = <<"getCapability">>
          /\ capEpoch[t] \in 1..Len(deviceHistory)
          /\ LET native == deviceHistory[capEpoch[t]]
             IN  /\ Value32(width(caps[t])) = native.screenWidth
                 /\ Value32(height(caps[t])) = native.screenHeight
                 /\ Value32(input_grid_width(caps[t])) = native.tabletMaxX
                 /\ Value32(input_grid_height(caps[t])) = native.tabletMaxY
                 /\ Value32(input_grid_pressure(caps[t])) =
                        native.tabletMaxPressure
    /\ \A t, u \in Threads :
          (GotCapability(t) /\ GotCapability(u) /\ capEpoch[t] = capEpoch[u]) =>
              caps[t] = caps[u]

\* C17 witness: one thread read the first configuration, the device changed,
\* and the other thread read the new one, whose width is the largest 16-bit
\* value.
C17_Witness ==
    /\ GotCapability(Thread(1))
    /\ GotCapability(Thread(2))
    /\ capEpoch[Thread(1)] = 1
    /\ capEpoch[Thread(2)] = 2
    /\ Value32(width(caps[Thread(1)])) = 800
    /\ Value32(width(caps[Thread(2)])) = 65535
    /\ Value32(input_grid_pressure(caps[Thread(1)])) = 2047

\* C20: the message and the secondary code of the Error a thread gets for
\* its failing native call are those the SDK recorded for that call, whatever
\* the other thread called in between.
C20_DetailOfOwnCall ==
    [][\A p \in Procs :
          (pc[p] = "getexc" /\ result'[p].kind = "Err") =>
              result'[p].detail = recorded[p]]_vars

\* ------------------------------------------------------------ window.rs
IsPrefix(a, b) == Len(a) <= Len(b) /\ SubSeq(b, 1, Len(a)) = a

\* A step of on_display_update: the window is open before and after, and
\* one notice fewer is pending.
DisplayUpdateStep ==
    /\ managementWindow = "open"
    /\ managementWindow' = "open"
    /\ display_update' = display_update - 1

\* C21: update_preview sends the blob before it posts the notice, so at
\* least as many blobs are buffered as notices are posted and not handled;
\* no on_display_update finds the channel empty; each run takes exactly one
\* blob, the oldest one; and the blobs taken and shown follow the order of
\* the sends.
C21_PreviewDelivery ==
    /\ [](/\ Len(display_blobs) >= display_update
          /\ uiPanic # "try_recv"
          /\ IsPrefix(taken, sent)
          /\ IsPrefix(shown, taken)
          /\ \A i, j \in 1..Len(shown) :
                i < j => shown[i].bitmap < shown[j].bitmap)
    /\ [][DisplayUpdateStep =>
             /\ display_blobs # <<>>
             /\ display_blobs' = Tail(display_blobs)
             /\ taken' = Append(taken, Head(display_blobs))]_vars

\* Two controllers are inside update_preview with their blobs sent, a
\* handler run has shown the first blob and the second is still buffered
\* with no notice pending for it.
C21_Witness ==
    /\ Len(shown) >= 1
    /\ Len(display_blobs) >= 1
    /\ display_update = 0
    /\ \E c \in Controllers : ctl[c] = "sent"
    /\ \E c, d \in Controllers : c # d /\ ctl[c] # "none" /\ ctl[d] # "none"

\* The Information of the devices WacomGSS_getUsbDevices listed.
Enumerated == {info(enumerated.devices[i]) : i \in 1..enumerated.count}

\* pick_tablet has returned to its caller.
PickReturned == pickPc = "returned"

\* C22: with zero enumerated devices pick_tablet returns NoDevicesAvailable
\* and no DeviceSelection is constructed, so its assertion never fires;
\* otherwise it returns Ok(info) exactly when on_accept ended the dialog,
\* info being the entry selected at that moment and one of the enumerated
\* devices, and Cancelled exactly when the cancel button or the window close
\* ended it.
C22_PickTabletOutcome ==
    /\ [](/\ pick_out.panic # "assertion failed"
          /\ enumerated.count = 0 => built = 0
          /\ (PickReturned /\ enumerated.count = 0) =>
                pick_out = PickErr("NoDevicesAvailable")
          /\ (PickReturned /\ enumerated.count > 0) =>
                /\ pick_out.kind \in {"Ok", "Cancelled"}
                /\ pick_out.kind = "Ok" <=> endedBy = "accept"
                /\ pick_out.kind = "Cancelled" <=>
                       endedBy \in {"cancel", "close"}
                /\ pick_out.kind = "Ok" =>
                       /\ pick_out.info \in Enumerated
                       /\ pick_out.info =
                              info(enumerated.devices[selection + 1]))
    /\ [][(endedBy = "none" /\ endedBy' = "accept") =>
             channel' = collection[selection + 1]]_vars

\* Two different devices were enumerated, the user moved the selection to
\* the second entry and accepted, and pick_tablet returned Ok.
C22_Witness ==
    /\ PickReturned
    /\ pick_out.kind = "Ok"
    /\ enumerated.count = 2
    /\ enumerated.devices[1] # enumerated.devices[2]
    /\ selection = 1
    /\ selects >= 1

====
